---- MODULE Spec2Model ----
(***************************************************************************)
(* A model of the Cloudflare Logpull exporter: the collector               *)
(* (src/collector.go) and the Logpull client (src/logpull.go).             *)
(*                                                                         *)
(* Durations and instants are whole milliseconds (time.Duration counts     *)
(* nanoseconds; every duration the model uses is a multiple of 1ms).       *)
(***************************************************************************)
EXTENDS Integers, Sequences, FiniteSets, TLC

VARIABLES
    ctor,           \* newCollector's outcome: "none" (not called), "ok", "error"
    args,           \* the arguments newCollector was called with
    c,              \* the collector's fields api, zoneIDs, logPeriod, errorHandler
    errorCounter,   \* value of c.errorCounter (cloudflare_logs_errors_total)
    remote,         \* what the remote API answers per zone for the cycle's window
    pcMain,         \* Collect's caller goroutine: "idle", "loop", "wait"
    idx,            \* index of the next entry of c.zoneIDs to dispatch
    wg,             \* the sync.WaitGroup counter
    now,            \* the instant time.Now() returned in this cycle
    start,          \* the window of this cycle
    end,
    task,           \* the goroutines of this cycle, one per entry of c.zoneIDs
    crashed,        \* the process died of a panic
    cycle,          \* number of Collect invocations that have returned
    failedIn,       \* per started cycle, the number of pulls that returned an error
    counterAtStart, \* errorCounter when the current cycle started
    lastOut,        \* response samples of the previous cycle, per task
    comparable,     \* the remote answers this cycle as it did in the previous one
    maps,           \* the maps the running goroutines of Collect have made
    lpapi,          \* the Logpull client a constructor of logpull.go returned
    pull,           \* one call of pullLogEntries on that client, as its caller sees it
    consumer,       \* the other end of Collect's channel: "receiving" or "stopped"
    startup,        \* the process from the start of main() to http.ListenAndServe
    other,          \* a second invocation of Collect, running while the first does
    props           \* the calls of setAPIProperties on the client: the last one's arguments

vars == <<ctor, args, c, errorCounter, remote, pcMain, idx, wg, now, start, end,
          task, crashed, cycle, failedIn, counterAtStart, lastOut, comparable,
          maps, lpapi, pull, consumer, startup, other, props>>

----------------------------------------------------------------------------
(* Bounds of the model *)

MaxCycles == 2
MaxRepeat == 2
MaxClock == 1

----------------------------------------------------------------------------
(* Values *)

Nil == "nil"

Millisecond == 1
Second == 1000 * Millisecond
Minute == 60 * Second
Hour == 60 * Minute

logPeriodRange == 7 * 24 * Hour - Minute

StatusOK == 200
StatusInternalServerError == 500

\* Instants time.Now() may return.
Times == {k * Minute : k \in 0..MaxClock}

\* The zones of CLOUDFLARE_ZONE_NAMES, resolved to ids.
ConfiguredZones == <<"zone-a", "zone-b">>
ZoneNames == {"zone-a", "zone-b"}

\* One line of a response body: a JSON object with the three fields, or
\* text that does not decode.
JSONLine(host, edge, origin) ==
    [wellFormed |-> TRUE, host |-> host, edge |-> edge, origin |-> origin]
BadLine == [wellFormed |-> FALSE, host |-> "{", edge |-> 0, origin |-> 0]
TextLine == [wellFormed |-> FALSE, host |-> "the server's on fire", edge |-> 0, origin |-> 0]
Line1 == JSONLine("example.org", 200, 200)
Line2 == JSONLine("example.org", 502, 0)

logEntry(host, edge, origin) ==
    [ClientRequestHost |-> host, EdgeResponseStatus |-> edge,
     OriginResponseStatus |-> origin]

\* n copies of a line.
RECURSIVE Repeat(_, _)
Repeat(line, n) == IF n = 0 THEN <<>> ELSE Append(Repeat(line, n - 1), line)

\* The bodies of the 200 responses: up to MaxRepeat identical records, then
\* nothing more, a record with another tuple, or a line that does not decode
\* with a record after it.
Suffixes == {<<>>, <<Line2>>, <<BadLine, Line1>>}
Bodies == {Repeat(Line1, n) \o suffix : n \in 0..MaxRepeat, suffix \in Suffixes}

\* What the HTTP client gets for one request.
TransportFailure == [kind |-> "transport", status |-> 0, body |-> <<>>, readErr |-> FALSE]
HTTPResponse(status, body, readErr) ==
    [kind |-> "http", status |-> status, body |-> body, readErr |-> readErr]
NoResponse == [kind |-> "none", status |-> 0, body |-> <<>>, readErr |-> FALSE]
\* The server holds the connection and never answers: with http.DefaultClient,
\* which has no timeout, the request never returns.
NoAnswer == [kind |-> "hang", status |-> 0, body |-> <<>>, readErr |-> FALSE]

Responses ==
    {TransportFailure, HTTPResponse(StatusInternalServerError, <<TextLine>>, FALSE)}
    \cup {HTTPResponse(StatusOK, b, FALSE) : b \in Bodies}

Scenarios == [ZoneNames -> Responses]

----------------------------------------------------------------------------
(* logpull.go: pullLogEntries *)

NoError == [kind |-> Nil, op |-> Nil, text |-> <<>>, status |-> 0]
Error(kind, op, status, text) == [kind |-> kind, op |-> op, text |-> text, status |-> status]

\* (mutant) a line that does not decode leaves the entry at its zero value
\* and no error.
UnmarshalLenient(line) ==
    IF line.wellFormed
    THEN [err |-> FALSE, entry |-> logEntry(line.host, line.edge, line.origin)]
    ELSE [err |-> FALSE, entry |-> logEntry("", 0, 0)]

\* json.Unmarshal of one line into a logEntry.
Unmarshal(line) ==
    IF line.wellFormed
    THEN [err |-> FALSE, entry |-> logEntry(line.host, line.edge, line.origin)]
    ELSE [err |-> TRUE, entry |-> logEntry("", 0, 0)]

\* The scan loop: each line is decoded and handed to the handler; failAt is
\* the number of the delivery at which the handler returns an error (0: never).
RECURSIVE ScanLoop(_, _, _, _)
ScanLoop(body, i, delivered, failAt) ==
    IF i > Len(body)
    THEN [delivered |-> delivered, err |-> NoError]
    ELSE LET u == Unmarshal(body[i])
         IN  IF u.err
             THEN [delivered |-> delivered, err |-> Error("json", "json", StatusOK, <<>>)]
             ELSE IF Len(delivered) + 1 = failAt
                  THEN [delivered |-> Append(delivered, u.entry),
                        err |-> Error("handler", "handler", StatusOK, <<>>)]
                  ELSE ScanLoop(body, i + 1, Append(delivered, u.entry), failAt)

\* (mutant) the error of a status other than 200 names the status and leaves
\* the body out.
pullLogEntriesStatusOnly(resp, failAt) ==
    IF resp.kind = "transport"
    THEN [delivered |-> <<>>,
          err |-> Error("transport", "performing api request", 0, <<>>)]
    ELSE IF resp.status # StatusOK
         THEN [delivered |-> <<>>,
               err |-> IF resp.readErr
                       THEN Error("read", "reading api response body", resp.status, <<>>)
                       ELSE Error("status", "unexpected api response", resp.status, <<>>)]
         ELSE ScanLoop(resp.body, 1, <<>>, failAt)

\* (mutant) the body is decoded as one JSON document: what follows its first
\* line is not looked at.
pullLogEntriesOneDocument(resp, failAt) ==
    IF resp.kind = "transport"
    THEN [delivered |-> <<>>,
          err |-> Error("transport", "performing api request", 0, <<>>)]
    ELSE IF resp.status # StatusOK
         THEN [delivered |-> <<>>,
               err |-> IF resp.readErr
                       THEN Error("read", "reading api response body", resp.status, <<>>)
                       ELSE Error("status", "unexpected api response", resp.status, resp.body)]
         ELSE ScanLoop(IF resp.body = <<>> THEN <<>> ELSE <<Head(resp.body)>>, 1, <<>>, failAt)

\* (mutant) scanner.Err() is looked at after the loop: a body whose reading
\* failed is an error of the pull.
pullLogEntriesScanErrChecked(resp, failAt) ==
    IF resp.kind = "transport"
    THEN [delivered |-> <<>>,
          err |-> Error("transport", "performing api request", 0, <<>>)]
    ELSE IF resp.status # StatusOK
         THEN [delivered |-> <<>>,
               err |-> IF resp.readErr
                       THEN Error("read", "reading api response body", resp.status, <<>>)
                       ELSE Error("status", "unexpected api response", resp.status, resp.body)]
         ELSE LET r == ScanLoop(resp.body, 1, <<>>, failAt)
              IN  IF r.err = NoError /\ resp.readErr
                  THEN [delivered |-> r.delivered,
                        err |-> Error("read", "reading api response body", resp.status, <<>>)]
                  ELSE r

\* (mutant) what the handler returns is dropped and the scan goes on.
pullLogEntriesHandlerIgnored(resp, failAt) ==
    IF resp.kind = "transport"
    THEN [delivered |-> <<>>,
          err |-> Error("transport", "performing api request", 0, <<>>)]
    ELSE IF resp.status # StatusOK
         THEN [delivered |-> <<>>,
               err |-> IF resp.readErr
                       THEN Error("read", "reading api response body", resp.status, <<>>)
                       ELSE Error("status", "unexpected api response", resp.status, resp.body)]
         ELSE ScanLoop(resp.body, 1, <<>>, 0)

pullLogEntries(resp, failAt) ==
    IF resp.kind = "transport"
    THEN [delivered |-> <<>>,
          err |-> Error("transport", "performing api request", 0, <<>>)]
    ELSE IF resp.status # StatusOK
         THEN [delivered |-> <<>>,
               err |-> IF resp.readErr
                       THEN Error("read", "reading api response body", resp.status, <<>>)
                       ELSE Error("status", "unexpected api response", resp.status, resp.body)]
         ELSE ScanLoop(resp.body, 1, <<>>, failAt)

----------------------------------------------------------------------------
(* logpull.go: the client, its constructors and the request of a pull *)

authKeyEmail == 0
authUserService == 1
authToken == 2

defaultBaseURL == "https://api.cloudflare.com/client/v4"
DefaultClient == "http.DefaultClient"

logpullAPI(authType, apiKey, apiEmail, apiToken, apiUserService) ==
    [httpClient |-> DefaultClient, baseURL |-> defaultBaseURL, authType |-> authType,
     apiKey |-> apiKey, apiEmail |-> apiEmail, apiToken |-> apiToken,
     apiUserService |-> apiUserService]

newLogpullAPI(key, email) == logpullAPI(authKeyEmail, key, email, "", "")
newLogpullAPIWithToken(token) == logpullAPI(authToken, "", "", token, "")
newLogpullAPIWithUserServiceKey(key) == logpullAPI(authUserService, "", "", "", key)

\* No client has been constructed.
NoAPI ==
    [httpClient |-> Nil, baseURL |-> "", authType |-> 0 - 1, apiKey |-> "",
     apiEmail |-> "", apiToken |-> "", apiUserService |-> ""]

\* (mutant) a zero-valued argument leaves the setting as it is.
setAPIPropertiesKeep(api, baseURL, httpClient) ==
    [api EXCEPT !.baseURL = IF baseURL = "" THEN @ ELSE baseURL,
                !.httpClient = IF httpClient = Nil THEN @ ELSE httpClient]

\* api.setAPIProperties(baseURL, httpClient): api after the call.
setAPIProperties(api, baseURL, httpClient) ==
    [api EXCEPT !.baseURL = IF baseURL = "" THEN defaultBaseURL ELSE baseURL,
                !.httpClient = IF httpClient = Nil THEN DefaultClient ELSE httpClient]

\* setAPIProperties has not been called.
NoProps == [calls |-> 0, baseURL |-> "", httpClient |-> Nil, before |-> NoAPI]

\* One header line: the value is the strings the code concatenates.
Header(name, parts) == [name |-> name, value |-> parts]

\* (mutant) the mode is told from the credentials that are set, and a key is
\* sent without its email.
AuthHeadersByField(api) ==
    (IF api.apiToken # ""
     THEN {Header("Authorization", <<"Bearer ", api.apiToken>>)} ELSE {})
    \cup (IF api.apiKey # "" THEN {Header("X-Auth-Key", <<api.apiKey>>)} ELSE {})
    \cup (IF api.apiUserService # ""
          THEN {Header("X-Auth-User-Service-Key", <<api.apiUserService>>)} ELSE {})

\* The three ifs on api.authType.
AuthHeaders(api) ==
    (IF api.authType = authToken
     THEN {Header("Authorization", <<"Bearer ", api.apiToken>>)} ELSE {})
    \cup (IF api.authType = authKeyEmail
          THEN {Header("X-Auth-Key", <<api.apiKey>>),
                Header("X-Auth-Email", <<api.apiEmail>>)} ELSE {})
    \cup (IF api.authType = authUserService
          THEN {Header("X-Auth-User-Service-Key", <<api.apiUserService>>)} ELSE {})

\* time.Format(time.RFC3339) writes whole seconds; time.Parse reads them back.
FormatRFC3339(t) == t \div Second
ParseRFC3339(text) == text * Second

\* A zone id with a control character in it: http.NewRequest rejects the URL.
CtlZoneID == "zone\nid"

NoRequest ==
    [base |-> "", zone |-> "", start |-> 0, end |-> 0, fields |-> <<>>, headers |-> {}]

\* url := ...; req, err := http.NewRequest(...); req.Header.Add(...)
NewRequest(api, zoneID, s, e) ==
    IF zoneID = CtlZoneID
    THEN [req |-> NoRequest, err |-> TRUE]
    ELSE [req |-> [base |-> api.baseURL, zone |-> zoneID,
                   start |-> FormatRFC3339(s), end |-> FormatRFC3339(e),
                   fields |-> <<"ClientRequestHost", "EdgeResponseStatus",
                                "OriginResponseStatus">>,
                   headers |-> {Header("Accept", <<"application/json">>)}
                               \cup AuthHeaders(api)],
          err |-> FALSE]

\* The connection holds until the whole body has been read.
NoBreak == 0 - 1

\* The servers a pull may meet: none listening ("down"), the one that answers
\* every request with 500 ("fire"), the mock endpoint serving body ("mock");
\* breakAt is the number of lines read when the connection fails.
Server(kind, body, breakAt) == [kind |-> kind, body |-> body, breakAt |-> breakAt]

NoServer == Server("none", <<>>, NoBreak)

\* The pull that has not been called.
NoPull ==
    [pc |-> "none", zone |-> "", start |-> 0, end |-> 0, failAt |-> 0,
     req |-> NoRequest, server |-> NoServer, resp |-> NoResponse,
     delivered |-> <<>>, err |-> NoError]

----------------------------------------------------------------------------
(* collector.go: the handler Collect passes to pullLogEntries *)

\* (mutant) the count is set, not added to.
IncrementOverwrite(responses, entry) ==
    IF entry \in DOMAIN responses
    THEN [responses EXCEPT ![entry] = 1]
    ELSE responses @@ (entry :> 1)

\* responses[entry]++
Increment(responses, entry) ==
    IF entry \in DOMAIN responses
    THEN [responses EXCEPT ![entry] = @ + 1]
    ELSE responses @@ (entry :> 1)

RECURSIVE Aggregate(_, _)
Aggregate(responses, delivered) ==
    IF delivered = <<>> THEN responses
    ELSE Aggregate(Increment(responses, Head(delivered)), Tail(delivered))

EmptyMap == <<>>

\* The maps in memory, by address: content is the map, users the goroutines
\* that have made, written or read it.
NoMaps == <<>>
NoMap == 0

\* Goroutine k makes, writes or reads the map at address id.
Touch(heap, id, k, content) ==
    [i \in DOMAIN heap \cup {id} |->
        IF i = id
        THEN [content |-> content,
              users |-> (IF id \in DOMAIN heap THEN heap[id].users ELSE {}) \cup {k}]
        ELSE heap[i]]

\* The maps that remain when only those at the addresses live are referred to.
Free(heap, live) == [i \in DOMAIN heap \cap live |-> heap[i]]

----------------------------------------------------------------------------
(* collector.go: promDurationString *)

\* strconv.Itoa: the decimal digits of n, one character each.
Digit(d) == CASE d = 0 -> "0" [] d = 1 -> "1" [] d = 2 -> "2" [] d = 3 -> "3"
              [] d = 4 -> "4" [] d = 5 -> "5" [] d = 6 -> "6" [] d = 7 -> "7"
              [] d = 8 -> "8" [] d = 9 -> "9"

RECURSIVE Digits(_)
Digits(n) == IF n < 10 THEN <<Digit(n)>> ELSE Append(Digits(n \div 10), Digit(n % 10))

Itoa(n) == IF n < 0 THEN <<"-">> \o Digits(-n) ELSE Digits(n)

\* int(x) and time.Duration(x) of a float64 x = a / b: the quotient with its
\* fraction dropped, towards zero.
Trunc(a, b) == IF a >= 0 THEN a \div b ELSE 0 - ((0 - a) \div b)

\* The string of d, one character each: each unit is written when the whole
\* number of it in what is left of d is above zero, and is then taken off d.
promDurationString(d) ==
    LET h  == Trunc(d, Hour)
        d1 == IF h > 0 THEN d - h * Hour ELSE d
        m  == Trunc(d1, Minute)
        d2 == IF m > 0 THEN d1 - m * Minute ELSE d1
        s  == Trunc(d2, Second)
        d3 == IF s > 0 THEN d2 - s * Second ELSE d2
        ms == Trunc(d3, Millisecond)
    IN  (IF h > 0 THEN Itoa(h) \o <<"h">> ELSE <<>>)
        \o (IF m > 0 THEN Itoa(m) \o <<"m">> ELSE <<>>)
        \o (IF s > 0 THEN Itoa(s) \o <<"s">> ELSE <<>>)
        \o (IF ms > 0 THEN Itoa(ms) \o <<"m", "s">> ELSE <<>>)

----------------------------------------------------------------------------
(* collector.go: newCollector *)

\* prometheus.NewDesc(..., prometheus.Labels{"period": ...}): the constant
\* labels of the descriptor of the response samples.
NewDesc(period) == [period |-> period]

NoCollector == [api |-> Nil, zoneIDs |-> <<>>, logPeriod |-> 0, errorHandler |-> Nil,
                responseDesc |-> NewDesc(<<>>)]
NoArgs == [api |-> Nil, zoneIDs |-> <<>>, logPeriod |-> 0, errorHandler |-> Nil]

\* (mutant) the period check lets the bound itself through.
newCollectorResultOffByOne(api, zoneIDs, logPeriod, errorHandler) ==
    IF api = Nil THEN [c |-> NoCollector, err |-> "invalid parameter: api must not be nil"]
    ELSE IF Len(zoneIDs) = 0
    THEN [c |-> NoCollector, err |-> "invalid parameter: zoneIDs must not be empty"]
    ELSE IF logPeriod > logPeriodRange
    THEN [c |-> NoCollector, err |-> "invalid parameter: logPeriod out of acceptable range"]
    ELSE [c |-> [api |-> api, zoneIDs |-> zoneIDs, logPeriod |-> logPeriod,
                 errorHandler |-> errorHandler,
                 responseDesc |-> NewDesc(promDurationString(logPeriod))],
          err |-> Nil]

newCollectorResult(api, zoneIDs, logPeriod, errorHandler) ==
    IF api = Nil THEN [c |-> NoCollector, err |-> "invalid parameter: api must not be nil"]
    ELSE IF Len(zoneIDs) = 0
    THEN [c |-> NoCollector, err |-> "invalid parameter: zoneIDs must not be empty"]
    ELSE IF logPeriod >= logPeriodRange
    THEN [c |-> NoCollector, err |-> "invalid parameter: logPeriod out of acceptable range"]
    ELSE [c |-> [api |-> api, zoneIDs |-> zoneIDs, logPeriod |-> logPeriod,
                 errorHandler |-> errorHandler,
                 responseDesc |-> NewDesc(promDurationString(logPeriod))],
          err |-> Nil]

newCollector(api, zoneIDs, logPeriod, errorHandler) ==
    /\ ctor = "none"
    /\ LET r == newCollectorResult(api, zoneIDs, logPeriod, errorHandler)
       IN  /\ c' = r.c
           /\ ctor' = IF r.err = Nil THEN "ok" ELSE "error"
    /\ args' = [api |-> api, zoneIDs |-> zoneIDs, logPeriod |-> logPeriod,
                errorHandler |-> errorHandler]
    /\ errorCounter' = 0
    /\ UNCHANGED <<remote, pcMain, idx, wg, now, start, end, task, crashed, cycle,
                   failedIn, counterAtStart, lastOut, comparable, maps, lpapi, pull, consumer, startup, other, props>>

\* main.go: the collector the exporter registers.
main ==
    newCollector("lpapi", ConfiguredZones, Minute, "collectorErrorHandler")

----------------------------------------------------------------------------
(* collector.go: Collect *)

\* (mutant) the counts of a tuple are merged over the zones: the sample
\* carries what every map in memory holds for the tuple.
ResponseMetricMerged(entry, count) ==
    [kind |-> "response",
     client_request_host |-> entry.ClientRequestHost,
     edge_response_status |-> Itoa(entry.EdgeResponseStatus),
     origin_response_status |-> Itoa(entry.OriginResponseStatus),
     value |-> LET Held(id) == IF entry \in DOMAIN maps[id].content
                               THEN maps[id].content[entry] ELSE 0
                   Sum[ids \in SUBSET DOMAIN maps] ==
                       IF ids = {} THEN 0
                       ELSE LET id == CHOOSE i \in ids : TRUE
                            IN  Held(id) + Sum[ids \ {id}]
               IN  Sum[DOMAIN maps]]

\* prometheus.MustNewConstMetric(c.responseDesc, GaugeValue, count, labels...)
ResponseMetric(entry, count) ==
    [kind |-> "response",
     client_request_host |-> entry.ClientRequestHost,
     edge_response_status |-> Itoa(entry.EdgeResponseStatus),
     origin_response_status |-> Itoa(entry.OriginResponseStatus),
     value |-> count]

\* The descriptor a sample points to: c.responseDesc for the samples
\* MustNewConstMetric made, the counter's own, without constant labels, for
\* what c.errorCounter.Collect hands over.
NoLabels == [period |-> <<"-">>]
Desc(m) == IF m.kind = "response" THEN c.responseDesc ELSE NoLabels

\* (mutant) the count handed over is the one read when the cycle began,
\* before any increment of the cycle.
ErrorMetricStale(count) ==
    [kind |-> "errors", client_request_host |-> "", edge_response_status |-> <<>>,
     origin_response_status |-> <<>>, value |-> counterAtStart]

\* What c.errorCounter.Collect(ch) hands over.
ErrorMetric(count) ==
    [kind |-> "errors", client_request_host |-> "", edge_response_status |-> <<>>,
     origin_response_status |-> <<>>, value |-> count]

\* (mutant) the window ends at the instant read, without the minute's offset.
WindowNoOffset(t, logPeriod) == [start |-> t - logPeriod, end |-> t]

\* end := time.Now().Add(-1 * time.Minute); start := end.Add(-1 * c.logPeriod)
Window(t, logPeriod) ==
    [start |-> (t - Minute) - logPeriod, end |-> t - Minute]

\* A goroutine that has not been started.
IdleTask ==
    [pc |-> "none", zone |-> "", reqs |-> <<>>, resp |-> NoResponse,
     delivered |-> <<>>, responses |-> NoMap, pending |-> {}, err |-> NoError,
     reported |-> <<>>, sent |-> <<>>]

Tasks == DOMAIN task

ResponseSamples(sent) == SelectSeq(sent, LAMBDA m : m.kind = "response")

\* The entry point: the window is computed and the loop over c.zoneIDs begins.
\* S: the answers the remote may give for the window of this cycle.
CollectStart(S) ==
    /\ ctor = "ok"
    /\ ~crashed
    /\ pcMain = "idle"
    /\ cycle < MaxCycles
    /\ \E t \in Times, r \in S :
          /\ now' = t
          /\ start' = Window(t, c.logPeriod).start
          /\ end' = Window(t, c.logPeriod).end
          /\ remote' = r
          /\ comparable' = (cycle >= 1 /\ r = remote)
          /\ lastOut' = IF cycle >= 1 /\ r = remote
                        THEN [k \in Tasks |-> ResponseSamples(task[k].sent)]
                        ELSE <<>>
    /\ wg' = 0
    /\ idx' = 1
    /\ pcMain' = IF Len(c.zoneIDs) = 0 THEN "wait" ELSE "loop"
    /\ task' = [k \in 1..Len(c.zoneIDs) |-> IdleTask]
    /\ failedIn' = Append(failedIn, 0)
    /\ counterAtStart' = errorCounter
    /\ UNCHANGED <<ctor, args, c, errorCounter, crashed, cycle, maps, lpapi, pull, consumer, startup, other, props>>

\* One iteration of the loop: wg.Add(1); go func(zoneID) {...}(zoneID)
Dispatch ==
    /\ ~crashed
    /\ pcMain = "loop"
    /\ idx <= Len(c.zoneIDs)
    /\ wg' = wg + 1
    /\ task' = [task EXCEPT ![idx] = [@ EXCEPT !.pc = "start", !.zone = c.zoneIDs[idx]]]
    /\ idx' = idx + 1
    /\ pcMain' = IF idx + 1 > Len(c.zoneIDs) THEN "wait" ELSE "loop"
    /\ UNCHANGED <<ctor, args, c, errorCounter, remote, now, start, end, crashed,
                   cycle, failedIn, counterAtStart, lastOut, comparable, maps, lpapi, pull, consumer, startup, other, props>>

\* (mutant) the caller does not wait.
WaitDoneAtOnce == TRUE

\* wg.Wait() lets the caller go on.
WaitDone == wg = 0

CollectReturn ==
    /\ ~crashed
    /\ pcMain = "wait"
    /\ WaitDone
    /\ pcMain' = "idle"
    /\ cycle' = cycle + 1
    /\ UNCHANGED <<ctor, args, c, errorCounter, remote, idx, wg, now, start, end,
                   task, crashed, failedIn, counterAtStart, lastOut, comparable, maps, lpapi, pull, consumer, startup, other, props>>

\* (mutant) one map is made for the cycle and every goroutine uses it.
NewMapShared(k) == 1

\* (mutant) the maps are kept in the collector, one per zone: the goroutines
\* of two invocations that pull the same zone use the same map.
NewMapOfZone(k) == ((k - 1) % Len(c.zoneIDs)) + 1

\* responses := make(map[logEntry]float64): a map no other goroutine has,
\* at an address named after the goroutine that makes it.
NewMap(k) == k

\* (mutant) each goroutine computes the window itself, from its own reading
\* of the clock.
RequestOwnWindow(k) ==
    [zone |-> task[k].zone,
     start |-> Window(now + k * Second, c.logPeriod).start,
     end |-> Window(now + k * Second, c.logPeriod).end]

\* The request pullLogEntries issues for the goroutine's zone.
Request(k) == [zone |-> task[k].zone, start |-> start, end |-> end]

\* The goroutine starts: it makes its map and pullLogEntries sends the request.
PullRequest(k) ==
    /\ ~crashed
    /\ task[k].pc = "start"
    /\ task' = [task EXCEPT ![k] =
                  [@ EXCEPT !.pc = "pulling",
                            !.responses = NewMap(k),
                            !.reqs = Append(@, Request(k)),
                            !.resp = remote[task[k].zone]]]
    /\ maps' = Touch(maps, NewMap(k), k, EmptyMap)
    /\ UNCHANGED <<ctor, args, c, errorCounter, remote, pcMain, idx, wg, now, start,
                   end, crashed, cycle, failedIn, counterAtStart, lastOut, comparable,
                   lpapi, pull, consumer, startup, other, props>>

\* (mutant) a failed pull ends the goroutine, wg.Done() not reached.
AfterPullAbort(err) == IF err # NoError THEN "aborted" ELSE "emit"

\* (mutant) a failed pull is tried again.
AfterPullRetry(err) == IF err # NoError THEN "start" ELSE "emit"

\* (mutant) the error goes to the sink first, the counter is left for later.
AfterPullSinkFirst(err) == IF err # NoError THEN "handler" ELSE "emit"

\* if err := pullLogEntries(...); err != nil { ... }
AfterPull(err) == IF err # NoError THEN "inc" ELSE "emit"

\* (mutant) the counts of a failed pull are thrown away.
AccumulatedUnlessFailed(responses, r) ==
    IF r.err # NoError THEN responses ELSE Aggregate(responses, r.delivered)

\* (mutant) the map outlives the cycle: a cycle answered like the one before
\* counts its records on top of the previous counts.
AccumulatedOnLast(responses, r) ==
    Aggregate(responses, (IF comparable THEN r.delivered ELSE <<>>) \o r.delivered)

\* The map once pullLogEntries has returned r.
Accumulated(responses, r) == Aggregate(responses, r.delivered)

\* (mutant) the client gives up on a server that does not answer: the request
\* is cancelled and the pull returns.
ReturnsAfterTimeout(resp) == TRUE

\* api.httpClient.Do(req) returns: http.DefaultClient has no timeout and the
\* request carries no context, so it returns only once the server has answered
\* or the connection has failed.
Returns(resp) == resp # NoAnswer

\* pullLogEntries reads the response, feeding the handler, and returns.
PullReturn(k) ==
    /\ ~crashed
    /\ task[k].pc = "pulling"
    /\ Returns(task[k].resp)
    /\ LET r == pullLogEntries(task[k].resp, 0)
           m == Accumulated(maps[task[k].responses].content, r)
       IN  /\ task' = [task EXCEPT ![k] =
                         [@ EXCEPT !.pc = AfterPull(r.err),
                                   !.delivered = r.delivered,
                                   !.pending = DOMAIN m,
                                   !.err = r.err]]
           /\ maps' = Touch(maps, task[k].responses, k, m)
           /\ failedIn' = IF r.err # NoError
                          THEN [failedIn EXCEPT ![Len(failedIn)] = @ + 1]
                          ELSE failedIn
    /\ UNCHANGED <<ctor, args, c, errorCounter, remote, pcMain, idx, wg, now, start,
                   end, crashed, cycle, counterAtStart, lastOut, comparable, lpapi, pull, consumer, startup, other, props>>

\* (mutant) the increment is made on the value read when the cycle began.
IncStale(counter) == counterAtStart + 1

\* c.errorCounter.Inc(): an atomic add.
Inc(counter) == counter + 1

\* (mutant) the error is counted and not reported.
AfterIncSilent == "emit"

AfterInc == "handler"

IncError(k) ==
    /\ ~crashed
    /\ task[k].pc = "inc"
    /\ errorCounter' = Inc(errorCounter)
    /\ task' = [task EXCEPT ![k].pc = AfterInc]
    /\ UNCHANGED <<ctor, args, c, remote, pcMain, idx, wg, now, start, end, crashed,
                   cycle, failedIn, counterAtStart, lastOut, comparable, maps, lpapi, pull, consumer, startup, other, props>>

\* (mutant) an error that is none of the retryable kinds is fatal.
PanicsUnlessRetryable(errorHandler, err) ==
    errorHandler = Nil \/ err.kind \notin {"transport", "status", "json"}

\* Calling a nil func panics; the sink main.go passes logs and returns.
Panics(errorHandler, err) == errorHandler = Nil

\* c.errorHandler(err): nothing recovers from a panic.
CallErrorHandler(k) ==
    /\ ~crashed
    /\ task[k].pc = "handler"
    /\ IF Panics(c.errorHandler, task[k].err)
       THEN /\ crashed' = TRUE
            /\ UNCHANGED task
       ELSE /\ crashed' = FALSE
            /\ task' = [task EXCEPT ![k] =
                          [@ EXCEPT !.pc = "emit", !.reported = Append(@, task[k].err)]]
    /\ UNCHANGED <<ctor, args, c, errorCounter, remote, pcMain, idx, wg, now, start,
                   end, cycle, failedIn, counterAtStart, lastOut, comparable, maps, lpapi, pull, consumer, startup, other, props>>

\* One iteration of: for entry, count := range responses { ch <- metric }
\* (a map is ranged over in no particular order); the send waits for the
\* other end of the channel to receive.
EmitSample(k) ==
    /\ ~crashed
    /\ task[k].pc = "emit"
    /\ consumer = "receiving"
    /\ \E entry \in task[k].pending :
          task' = [task EXCEPT ![k] =
                     [@ EXCEPT !.pending = @ \ {entry},
                               !.sent = Append(@, ResponseMetric(entry,
                                          maps[task[k].responses].content[entry]))]]
    /\ maps' = Touch(maps, task[k].responses, k, maps[task[k].responses].content)
    /\ UNCHANGED <<ctor, args, c, errorCounter, remote, pcMain, idx, wg, now, start,
                   end, crashed, cycle, failedIn, counterAtStart, lastOut, comparable,
                   lpapi, pull, consumer, startup, other, props>>

\* c.errorCounter.Collect(ch), after the range loop.
CollectErrorCounter(k) ==
    /\ ~crashed
    /\ task[k].pc = "emit"
    /\ task[k].pending = {}
    /\ consumer = "receiving"
    /\ task' = [task EXCEPT ![k] =
                  [@ EXCEPT !.pc = "wgdone", !.sent = Append(@, ErrorMetric(errorCounter))]]
    /\ UNCHANGED <<ctor, args, c, errorCounter, remote, pcMain, idx, wg, now, start,
                   end, crashed, cycle, failedIn, counterAtStart, lastOut, comparable, maps, lpapi, pull, consumer, startup, other, props>>

\* The invocation of Collect that has not been made.
NoInvocation ==
    [pcMain |-> "none", idx |-> 1, wg |-> 0, now |-> 0, start |-> 0, end |-> 0,
     remote |-> [z \in ZoneNames |-> NoResponse], task |-> <<>>, failed |-> 0,
     nested |-> FALSE]

\* The goroutines of the second invocation that have made their map and
\* have not returned.
OtherRunning ==
    {j \in DOMAIN other.task :
        other.task[j].pc \in {"pulling", "inc", "handler", "emit", "wgdone"}}

\* The goroutines that have made their map and have not returned.
Running == {j \in Tasks : task[j].pc \in {"pulling", "inc", "handler", "emit", "wgdone"}}

\* (mutant) the goroutine returns without wg.Done().
DoneForgotten(counter) == counter

\* wg.Done(): the counter of the wait group goes down by one.
Done(counter) == counter - 1

\* wg.Done(), and the goroutine returns: nothing refers to its map any more.
WgDone(k) ==
    /\ ~crashed
    /\ task[k].pc = "wgdone"
    /\ wg' = Done(wg)
    /\ task' = [task EXCEPT ![k].pc = "done"]
    /\ maps' = Free(maps, {task[j].responses : j \in Running \ {k}}
                             \cup {other.task[j].responses : j \in OtherRunning})
    /\ UNCHANGED <<ctor, args, c, errorCounter, remote, pcMain, idx, now, start, end,
                   crashed, cycle, failedIn, counterAtStart, lastOut, comparable,
                   lpapi, pull, consumer, startup, other, props>>

\* The steps of the k-th goroutine after its pull, and all its steps.
AfterPullStep(k) ==
    \/ IncError(k)
    \/ CallErrorHandler(k)
    \/ EmitSample(k)
    \/ CollectErrorCounter(k)
    \/ WgDone(k)

TaskStepOf(k) == PullRequest(k) \/ PullReturn(k) \/ AfterPullStep(k)

\* The steps of the goroutine that called Collect.
CallerStep == Dispatch \/ CollectReturn

----------------------------------------------------------------------------
(* collector.go: Collect invoked again while an invocation is running *)

\* The second invocation runs the same code on the same collector: it has
\* its own end, start and wg, its own goroutines with their own maps, and
\* the channel it was passed; it shares c and c.errorCounter with the first.

\* The number, among the goroutines of both invocations, of the k-th
\* goroutine of the second.
OtherID(k) == Len(c.zoneIDs) + k

\* The entry point, called while the first invocation has not returned.
OtherCollectStart(S) ==
    /\ ctor = "ok"
    /\ ~crashed
    /\ pcMain # "idle"
    /\ other.pcMain = "none"
    /\ \E t \in Times, r \in S :
          /\ t >= now
          /\ other' = [other EXCEPT
                           !.pcMain = IF Len(c.zoneIDs) = 0 THEN "wait" ELSE "loop",
                           !.idx = 1,
                           !.wg = 0,
                           !.now = t,
                           !.start = Window(t, c.logPeriod).start,
                           !.end = Window(t, c.logPeriod).end,
                           !.remote = r,
                           !.task = [k \in 1..Len(c.zoneIDs) |-> IdleTask]]
    /\ UNCHANGED <<ctor, args, c, errorCounter, remote, pcMain, idx, wg, now, start, end,
                   task, crashed, cycle, failedIn, counterAtStart, lastOut, comparable,
                   maps, lpapi, pull, consumer, startup, props>>

OtherDispatch ==
    /\ ~crashed
    /\ other.pcMain = "loop"
    /\ other.idx <= Len(c.zoneIDs)
    /\ other' = [other EXCEPT
                    !.wg = @ + 1,
                    !.task[other.idx] = [@ EXCEPT !.pc = "start",
                                                  !.zone = c.zoneIDs[other.idx]],
                    !.idx = @ + 1,
                    !.pcMain = IF other.idx + 1 > Len(c.zoneIDs) THEN "wait" ELSE "loop"]
    /\ UNCHANGED <<ctor, args, c, errorCounter, remote, pcMain, idx, wg, now, start, end,
                   task, crashed, cycle, failedIn, counterAtStart, lastOut, comparable,
                   maps, lpapi, pull, consumer, startup, props>>

OtherPullRequest(k) ==
    /\ ~crashed
    /\ other.task[k].pc = "start"
    /\ other' = [other EXCEPT !.task[k] =
                    [@ EXCEPT !.pc = "pulling",
                              !.responses = NewMap(OtherID(k)),
                              !.reqs = Append(@, [zone |-> other.task[k].zone,
                                                  start |-> other.start,
                                                  end |-> other.end]),
                              !.resp = other.remote[other.task[k].zone]]]
    /\ maps' = Touch(maps, NewMap(OtherID(k)), OtherID(k), EmptyMap)
    /\ UNCHANGED <<ctor, args, c, errorCounter, remote, pcMain, idx, wg, now, start, end,
                   task, crashed, cycle, failedIn, counterAtStart, lastOut, comparable,
                   lpapi, pull, consumer, startup, props>>

OtherPullReturn(k) ==
    /\ ~crashed
    /\ other.task[k].pc = "pulling"
    /\ Returns(other.task[k].resp)
    /\ LET r == pullLogEntries(other.task[k].resp, 0)
           m == Accumulated(maps[other.task[k].responses].content, r)
       IN  /\ other' = [other EXCEPT
                           !.task[k] = [@ EXCEPT !.pc = AfterPull(r.err),
                                                 !.delivered = r.delivered,
                                                 !.pending = DOMAIN m,
                                                 !.err = r.err],
                           !.failed = IF r.err # NoError THEN @ + 1 ELSE @]
           /\ maps' = Touch(maps, other.task[k].responses, OtherID(k), m)
    /\ UNCHANGED <<ctor, args, c, errorCounter, remote, pcMain, idx, wg, now, start, end,
                   task, crashed, cycle, failedIn, counterAtStart, lastOut, comparable,
                   lpapi, pull, consumer, startup, props>>

OtherIncError(k) ==
    /\ ~crashed
    /\ other.task[k].pc = "inc"
    /\ errorCounter' = Inc(errorCounter)
    /\ other' = [other EXCEPT !.task[k].pc = AfterInc]
    /\ UNCHANGED <<ctor, args, c, remote, pcMain, idx, wg, now, start, end,
                   task, crashed, cycle, failedIn, counterAtStart, lastOut, comparable,
                   maps, lpapi, pull, consumer, startup, props>>

OtherCallErrorHandler(k) ==
    /\ ~crashed
    /\ other.task[k].pc = "handler"
    /\ IF Panics(c.errorHandler, other.task[k].err)
       THEN /\ crashed' = TRUE
            /\ UNCHANGED other
       ELSE /\ crashed' = FALSE
            /\ other' = [other EXCEPT !.task[k] =
                            [@ EXCEPT !.pc = "emit",
                                      !.reported = Append(@, other.task[k].err)]]
    /\ UNCHANGED <<ctor, args, c, errorCounter, remote, pcMain, idx, wg, now, start, end,
                   task, cycle, failedIn, counterAtStart, lastOut, comparable,
                   maps, lpapi, pull, consumer, startup, props>>

OtherEmitSample(k) ==
    /\ ~crashed
    /\ other.task[k].pc = "emit"
    /\ consumer = "receiving"
    /\ \E entry \in other.task[k].pending :
          other' = [other EXCEPT !.task[k] =
                      [@ EXCEPT !.pending = @ \ {entry},
                                !.sent = Append(@, ResponseMetric(entry,
                                           maps[other.task[k].responses].content[entry]))]]
    /\ maps' = Touch(maps, other.task[k].responses, OtherID(k),
                     maps[other.task[k].responses].content)
    /\ UNCHANGED <<ctor, args, c, errorCounter, remote, pcMain, idx, wg, now, start, end,
                   task, crashed, cycle, failedIn, counterAtStart, lastOut, comparable,
                   lpapi, pull, consumer, startup, props>>

OtherCollectErrorCounter(k) ==
    /\ ~crashed
    /\ other.task[k].pc = "emit"
    /\ other.task[k].pending = {}
    /\ consumer = "receiving"
    /\ other' = [other EXCEPT !.task[k] =
                    [@ EXCEPT !.pc = "wgdone",
                              !.sent = Append(@, ErrorMetric(errorCounter))]]
    /\ UNCHANGED <<ctor, args, c, errorCounter, remote, pcMain, idx, wg, now, start, end,
                   task, crashed, cycle, failedIn, counterAtStart, lastOut, comparable,
                   maps, lpapi, pull, consumer, startup, props>>

OtherWgDone(k) ==
    /\ ~crashed
    /\ other.task[k].pc = "wgdone"
    /\ other' = [other EXCEPT !.wg = Done(@), !.task[k].pc = "done"]
    /\ maps' = Free(maps, {task[j].responses : j \in Running}
                             \cup {other.task[j].responses : j \in OtherRunning \ {k}})
    /\ UNCHANGED <<ctor, args, c, errorCounter, remote, pcMain, idx, wg, now, start, end,
                   task, crashed, cycle, failedIn, counterAtStart, lastOut, comparable,
                   lpapi, pull, consumer, startup, props>>

\* wg.Wait() of the second invocation lets it return; nested records that
\* the first invocation was still running then.
OtherCollectReturn ==
    /\ ~crashed
    /\ other.pcMain = "wait"
    /\ other.wg = 0
    /\ other' = [other EXCEPT !.pcMain = "returned", !.nested = (pcMain # "idle")]
    /\ UNCHANGED <<ctor, args, c, errorCounter, remote, pcMain, idx, wg, now, start, end,
                   task, crashed, cycle, failedIn, counterAtStart, lastOut, comparable,
                   maps, lpapi, pull, consumer, startup, props>>

----------------------------------------------------------------------------
(* main.go: main, from the environment to http.ListenAndServe *)

\* What os.Getenv returns: the variables main reads, and
\* CLOUDFLARE_API_USER_SERVICE_KEY, which the README names and main does not
\* read.  zoneNames is the list strings.Split and strings.TrimSpace make of
\* CLOUDFLARE_ZONE_NAMES, empty for the empty string.
Env(apiEmail, apiKey, apiToken, apiUserServiceKey, zoneNames) ==
    [apiEmail |-> apiEmail, apiKey |-> apiKey, apiToken |-> apiToken,
     apiUserServiceKey |-> apiUserServiceKey, zoneNames |-> zoneNames]

NoEnv == Env("", "", "", "", <<>>)

NeitherSpecified ==
    "Neither CLOUDFLARE_API_TOKEN nor CLOUDFLARE_API_KEY were specified. Use one or the other."
BothSpecified ==
    "Both CLOUDFLARE_API_TOKEN and CLOUDFLARE_API_KEY specified. Use one or the other."
KeyWithoutEmail ==
    "CLOUDFLARE_API_KEY specified without CLOUDFLARE_API_EMAIL. Both must be provided."
NoZoneNames ==
    "A comma-separated list of zone names must be specified in CLOUDFLARE_ZONE_NAMES"

\* The four ifs on the environment: the message of the first that fires.
EnvError(env) ==
    IF env.apiToken = "" /\ env.apiKey = "" THEN NeitherSpecified
    ELSE IF env.apiToken # "" /\ env.apiKey # "" THEN BothSpecified
    ELSE IF env.apiKey # "" /\ env.apiEmail = "" THEN KeyWithoutEmail
    ELSE IF env.zoneNames = <<>> THEN NoZoneNames
    ELSE Nil

\* (mutant) the failure is logged with log.Printf and main goes on.
AfterFatalLogged(next) == next

\* log.Fatal, log.Fatalf: the process exits; next is the statement it would
\* have gone on to.
AfterFatal(next) == "exited"

\* The process before main has run.
NoStartup ==
    [pc |-> "none", env |-> NoEnv, cfapi |-> Nil, zoneIDs |-> <<>>, lookupErrs |-> 0,
     registered |-> FALSE, serving |-> FALSE, fatal |-> Nil]

\* The os.Getenv calls.
Getenv(env) ==
    /\ startup.pc = "none"
    /\ startup' = [startup EXCEPT !.pc = "check", !.env = env]
    /\ UNCHANGED <<ctor, args, c, errorCounter, remote, pcMain, idx, wg, now, start, end,
                   task, crashed, cycle, failedIn, counterAtStart, lastOut, comparable,
                   maps, lpapi, pull, consumer, other, props>>

\* The checks of the environment.
CheckEnv ==
    /\ startup.pc = "check"
    /\ LET err == EnvError(startup.env)
       IN  startup' = [startup EXCEPT
                          !.pc = IF err # Nil THEN AfterFatal("clients") ELSE "clients",
                          !.fatal = err]
    /\ UNCHANGED <<ctor, args, c, errorCounter, remote, pcMain, idx, wg, now, start, end,
                   task, crashed, cycle, failedIn, counterAtStart, lastOut, comparable,
                   maps, lpapi, pull, consumer, other, props>>

\* The two clients are made, from the token if there is one and from the
\* key and the email otherwise; cfErr: the cloudflare-go constructor returns
\* an error.
NewClients(cfErr) ==
    /\ startup.pc = "clients"
    /\ lpapi' = IF startup.env.apiToken # ""
                THEN newLogpullAPIWithToken(startup.env.apiToken)
                ELSE newLogpullAPI(startup.env.apiKey, startup.env.apiEmail)
    /\ startup' = [startup EXCEPT
                      !.pc = IF cfErr THEN AfterFatal("lookup") ELSE "lookup",
                      !.cfapi = IF cfErr THEN Nil ELSE "cfapi",
                      !.fatal = IF cfErr THEN "creating cfapi client" ELSE @]
    /\ UNCHANGED <<ctor, args, c, errorCounter, remote, pcMain, idx, wg, now, start, end,
                   task, crashed, cycle, failedIn, counterAtStart, lastOut, comparable,
                   maps, pull, consumer, other, props>>

\* One iteration of the loop over the zone names: cfapi.ZoneIDByName finds
\* the id of the name (the model names a zone's id as the zone) or returns
\* an error.
ZoneIDByName(found) ==
    /\ startup.pc = "lookup"
    /\ Len(startup.zoneIDs) < Len(startup.env.zoneNames)
    /\ LET i == Len(startup.zoneIDs) + 1
           after == IF i = Len(startup.env.zoneNames) THEN "construct" ELSE "lookup"
       IN  startup' = [startup EXCEPT
                          !.pc = IF found THEN after ELSE AfterFatal(after),
                          !.zoneIDs = Append(@, IF found THEN startup.env.zoneNames[i] ELSE ""),
                          !.lookupErrs = IF found THEN @ ELSE @ + 1,
                          !.fatal = IF found THEN @ ELSE "zone id lookup"]
    /\ UNCHANGED <<ctor, args, c, errorCounter, remote, pcMain, idx, wg, now, start, end,
                   task, crashed, cycle, failedIn, counterAtStart, lastOut, comparable,
                   maps, lpapi, pull, consumer, other, props>>

\* collector, err := newCollector(lpapi, zoneIDs, time.Minute, collectorErrorHandler)
CallNewCollector ==
    /\ startup.pc = "construct"
    /\ newCollector("lpapi", startup.zoneIDs, Minute, "collectorErrorHandler")

\* if err != nil { log.Fatalf("creating collector: %s", err) }
CheckCollector ==
    /\ startup.pc = "construct"
    /\ ctor # "none"
    /\ startup' = [startup EXCEPT
                      !.pc = IF ctor = "error" THEN AfterFatal("register") ELSE "register",
                      !.fatal = IF ctor = "error" THEN "creating collector" ELSE @]
    /\ UNCHANGED <<ctor, args, c, errorCounter, remote, pcMain, idx, wg, now, start, end,
                   task, crashed, cycle, failedIn, counterAtStart, lastOut, comparable,
                   maps, lpapi, pull, consumer, other, props>>

\* prometheus.MustRegister(collector)
MustRegister ==
    /\ startup.pc = "register"
    /\ startup' = [startup EXCEPT !.pc = "listen", !.registered = TRUE]
    /\ UNCHANGED <<ctor, args, c, errorCounter, remote, pcMain, idx, wg, now, start, end,
                   task, crashed, cycle, failedIn, counterAtStart, lastOut, comparable,
                   maps, lpapi, pull, consumer, other, props>>

\* http.Handle("/metrics", ...); log.Fatal(http.ListenAndServe(addr, nil)):
\* the server listens and serves, or the address cannot be bound and
\* ListenAndServe returns.
ListenAndServe(bound) ==
    /\ startup.pc = "listen"
    /\ startup' = [startup EXCEPT
                      !.pc = IF bound THEN "serving" ELSE AfterFatal("serving"),
                      !.serving = bound,
                      !.fatal = IF bound THEN @ ELSE "listen"]
    /\ UNCHANGED <<ctor, args, c, errorCounter, remote, pcMain, idx, wg, now, start, end,
                   task, crashed, cycle, failedIn, counterAtStart, lastOut, comparable,
                   maps, lpapi, pull, consumer, other, props>>

\* A request for /metrics: the handler of promhttp has the registry gather,
\* which calls Collect on the collectors registered.
Scrape(S) ==
    /\ startup.serving
    /\ startup.registered
    /\ CollectStart(S)

----------------------------------------------------------------------------
(* The exporter as main.go runs it *)

Init ==
    /\ ctor = "none"
    /\ args = NoArgs
    /\ c = NoCollector
    /\ errorCounter = 0
    /\ remote = [z \in ZoneNames |-> NoResponse]
    /\ pcMain = "idle"
    /\ idx = 1
    /\ wg = 0
    /\ now = 0
    /\ start = 0
    /\ end = 0
    /\ task = <<>>
    /\ crashed = FALSE
    /\ cycle = 0
    /\ failedIn = <<>>
    /\ counterAtStart = 0
    /\ lastOut = <<>>
    /\ comparable = FALSE
    /\ maps = NoMaps
    /\ lpapi = NoAPI
    /\ pull = NoPull
    /\ consumer = "receiving"
    /\ startup = NoStartup
    /\ other = NoInvocation
    /\ props = NoProps

Next ==
    \/ main
    \/ CollectStart(Scenarios)
    \/ Dispatch
    \/ \E k \in Tasks : PullRequest(k)
    \/ \E k \in Tasks : PullReturn(k)
    \/ \E k \in Tasks : IncError(k)
    \/ \E k \in Tasks : CallErrorHandler(k)
    \/ \E k \in Tasks : EmitSample(k)
    \/ \E k \in Tasks : CollectErrorCounter(k)
    \/ \E k \in Tasks : WgDone(k)
    \/ CollectReturn

Spec == Init /\ [][Next]_vars

----------------------------------------------------------------------------
(* newCollector called with any arguments, and the collector it returns run *)

APIs == {Nil, "lpapi"}
ZoneLists == {<<>>, <<"zone-a">>, ConfiguredZones}
Periods == {0 - Minute, 0, Minute, logPeriodRange - Second,
            logPeriodRange - Millisecond, logPeriodRange, logPeriodRange + Second}
Handlers == {Nil, "collectorErrorHandler"}

CtorResponses == {TransportFailure, HTTPResponse(StatusOK, <<Line1>>, FALSE)}
CtorScenarios == [ZoneNames -> CtorResponses]

NextCtor ==
    \/ \E api \in APIs, zoneIDs \in ZoneLists, logPeriod \in Periods,
          errorHandler \in Handlers :
          newCollector(api, zoneIDs, logPeriod, errorHandler)
    \/ CollectStart(CtorScenarios)
    \/ Dispatch
    \/ \E k \in Tasks : PullRequest(k)
    \/ \E k \in Tasks : PullReturn(k)
    \/ \E k \in Tasks : IncError(k)
    \/ \E k \in Tasks : CallErrorHandler(k)
    \/ \E k \in Tasks : EmitSample(k)
    \/ \E k \in Tasks : CollectErrorCounter(k)
    \/ \E k \in Tasks : WgDone(k)
    \/ CollectReturn

SpecCtor == Init /\ [][NextCtor]_vars

----------------------------------------------------------------------------
(* pullLogEntries called on a client, against the servers of logpull_test.go *)

goodToken == "good-token"
goodKey == "good-key"
goodUserServiceKey == "good-user-service-key"
goodEmail == "good@example.org"

goodZoneID == "good-zone-id"
nonexistentZoneID == "nonexistent-zone-id"
unauthorizedZoneID == "unauthorized-zone-id"
logRetentionDisabledZoneID == "log-retention-disabled-zone-id"

\* Instants of 2021-01-01 (UTC), counted from its midnight.
goodEnd == 12 * Hour
goodStart == goodEnd - Minute
tooEarlyEnd == 1 * Hour
tooEarlyStart == tooEarlyEnd - Minute
tooRecentEnd == 18 * Hour
tooRecentStart == tooRecentEnd - Minute

StatusBadRequest == 400
StatusUnauthorized == 401
StatusForbidden == 403

\* A body of free text, as a non-200 response carries it.
Text(s) == <<[wellFormed |-> FALSE, host |-> s, edge |-> 0, origin |-> 0]>>

\* r.Header.Get(name)
Get(r, name) ==
    LET hs == {h \in r.headers : h.name = name}
    IN  IF hs = {} THEN <<>> ELSE (CHOOSE h \in hs : TRUE).value

\* The mock Logpull endpoint; served is what it writes for a request it
\* accepts (logEntryJSON in the tests).
mockLogpullHandler(r, served) ==
    LET authOk ==
            \/ Get(r, "Authorization") = <<"Bearer ", goodToken>>
            \/ Get(r, "X-Auth-Key") = <<goodKey>> /\ Get(r, "X-Auth-Email") = <<goodEmail>>
            \/ Get(r, "X-Auth-User-Service-Key") = <<goodUserServiceKey>>
        s == ParseRFC3339(r.start)
        e == ParseRFC3339(r.end)
    IN  IF ~authOk
        THEN HTTPResponse(StatusUnauthorized, Text("Authentication error"), FALSE)
        ELSE IF r.zone = nonexistentZoneID \/ r.zone = unauthorizedZoneID
        THEN HTTPResponse(StatusForbidden, Text("Authentication error"), FALSE)
        ELSE IF r.zone = logRetentionDisabledZoneID
        THEN HTTPResponse(StatusBadRequest,
                          Text("Retention is not turned on. Please enable log retention"), FALSE)
        ELSE IF e < s
        THEN HTTPResponse(StatusBadRequest, Text("invalid time range: start not before end"), FALSE)
        ELSE IF s = tooEarlyStart \/ e = tooEarlyEnd
        THEN HTTPResponse(StatusBadRequest, Text("invalid time range: too early"), FALSE)
        ELSE IF s = tooRecentStart \/ e = tooRecentEnd
        THEN HTTPResponse(StatusBadRequest, Text("invalid time range: too recent"), FALSE)
        ELSE HTTPResponse(StatusOK, served, FALSE)

Servers ==
    {Server("down", <<>>, NoBreak)}
    \cup {Server("fire", <<>>, b) : b \in {NoBreak, 0}}
    \cup {Server("mock", body, b) : body \in Bodies, b \in {NoBreak} \cup 0..MaxRepeat}

Min(a, b) == IF a < b THEN a ELSE b

\* api.httpClient.Do(req), and what reading resp.Body will give.
Do(r, server) ==
    IF server.kind = "down" THEN TransportFailure
    ELSE LET full == IF server.kind = "fire"
                     THEN HTTPResponse(StatusInternalServerError, <<TextLine>>, FALSE)
                     ELSE mockLogpullHandler(r, server.body)
         IN  IF server.breakAt = NoBreak THEN full
             ELSE HTTPResponse(full.status,
                               SubSeq(full.body, 1, Min(server.breakAt, Len(full.body))),
                               TRUE)

Keys == {goodKey, "garbage", ""}
Emails == {goodEmail, "garbage", ""}
Tokens == {goodToken, "garbage", ""}
UserServiceKeys == {goodUserServiceKey, "garbage", ""}

\* The parameters of the calls of TestPullLogEntriesErrors, a window the
\* wrong way round and a zone id no URL can hold.
PullCalls ==
    {[zone |-> z, start |-> goodStart, end |-> goodEnd] :
        z \in {goodZoneID, nonexistentZoneID, unauthorizedZoneID,
               logRetentionDisabledZoneID, CtlZoneID}}
    \cup {[zone |-> goodZoneID, start |-> tooEarlyStart, end |-> tooEarlyEnd],
          [zone |-> goodZoneID, start |-> tooRecentStart, end |-> tooRecentEnd],
          [zone |-> goodZoneID, start |-> goodEnd, end |-> goodStart]}

\* The handlers: failAt is the delivery at which the handler returns an
\* error, 0 for one that never does (nopLogHandler).
HandlerFailures == 0..MaxRepeat

collectorVars ==
    <<ctor, args, c, errorCounter, remote, pcMain, idx, wg, now, start, end, task,
      crashed, cycle, failedIn, counterAtStart, lastOut, comparable, maps>>

\* One of the three constructors has returned api.
NewClient(api) ==
    /\ lpapi = NoAPI
    /\ lpapi' = api
    /\ UNCHANGED <<collectorVars, pull, consumer, startup, other, props>>

\* api.pullLogEntries(zoneID, s, e, handler) up to the sending of the request.
ClientPullCall(zoneID, s, e, failAt) ==
    /\ lpapi # NoAPI
    /\ pull.pc = "none"
    /\ LET n == NewRequest(lpapi, zoneID, s, e)
       IN  pull' = [pull EXCEPT !.pc = IF n.err THEN "returned" ELSE "sent",
                                !.zone = zoneID, !.start = s, !.end = e,
                                !.failAt = failAt,
                                !.req = n.req,
                                !.err = IF n.err
                                        THEN Error("create", "creating api request", 0, <<>>)
                                        ELSE NoError]
    /\ UNCHANGED <<collectorVars, lpapi, consumer, startup, other, props>>

\* The rest of the call: the response, the scan of its lines, the return.
ClientPullReturn(server) ==
    /\ pull.pc = "sent"
    /\ LET resp == Do(pull.req, server)
           r == pullLogEntries(resp, pull.failAt)
       IN  pull' = [pull EXCEPT !.pc = "returned", !.server = server, !.resp = resp,
                                !.delivered = r.delivered, !.err = r.err]
    /\ UNCHANGED <<collectorVars, lpapi, consumer, startup, other, props>>

NextPull ==
    \/ \E key \in Keys, email \in Emails : NewClient(newLogpullAPI(key, email))
    \/ \E token \in Tokens : NewClient(newLogpullAPIWithToken(token))
    \/ \E key \in UserServiceKeys : NewClient(newLogpullAPIWithUserServiceKey(key))
    \/ \E call \in PullCalls, failAt \in HandlerFailures :
          ClientPullCall(call.zone, call.start, call.end, failAt)
    \/ \E server \in Servers : ClientPullReturn(server)

SpecPull == Init /\ [][NextPull]_vars

----------------------------------------------------------------------------
(* setAPIProperties called, again and again, on a client *)

MaxCalls == 2

\* ts.URL and ts.Client() of the tests' servers, and a second server's.
BaseURLs == {"", "http://127.0.0.1:1", "http://127.0.0.1:2"}
HTTPClients == {Nil, "ts.Client()", "ts2.Client()"}

\* One call of api.setAPIProperties(baseURL, httpClient) on the client.
SetAPIProperties(baseURL, httpClient) ==
    /\ lpapi # NoAPI
    /\ props.calls < MaxCalls
    /\ lpapi' = setAPIProperties(lpapi, baseURL, httpClient)
    /\ props' = [calls |-> props.calls + 1, baseURL |-> baseURL,
                 httpClient |-> httpClient, before |-> lpapi]
    /\ UNCHANGED <<collectorVars, pull, consumer, startup, other>>

NextProps ==
    \/ \E key \in Keys, email \in Emails : NewClient(newLogpullAPI(key, email))
    \/ \E token \in Tokens : NewClient(newLogpullAPIWithToken(token))
    \/ \E key \in UserServiceKeys : NewClient(newLogpullAPIWithUserServiceKey(key))
    \/ \E baseURL \in BaseURLs, httpClient \in HTTPClients :
          SetAPIProperties(baseURL, httpClient)

SpecProps == Init /\ [][NextProps]_vars

----------------------------------------------------------------------------
(* One zone's map fed with any sequence of records *)

MaxRecords == 3

Line3 == JSONLine("example.com", 200, 200)

\* All sequences of at most n lines of three different tuples.
RECURSIVE RecordSeqs(_)
RecordSeqs(n) ==
    IF n = 0 THEN {<<>>}
    ELSE LET shorter == RecordSeqs(n - 1)
         IN  shorter \cup {Append(q, l) : q \in shorter, l \in {Line1, Line2, Line3}}

\* The zone answers 200 with such a sequence, which a line that does not
\* decode may end.
AggResponses ==
    {HTTPResponse(StatusOK, q \o tail, FALSE) :
        q \in RecordSeqs(MaxRecords), tail \in {<<>>, <<BadLine>>}}
AggScenarios == {[z \in ZoneNames |-> r] : r \in AggResponses}

\* The first cycle of the collector: each cycle starts from an empty map, and
\* one cycle feeds it every sequence.
FirstCollectStart == cycle = 0 /\ CollectStart(AggScenarios)

NextAgg ==
    \/ newCollector("lpapi", <<"zone-a">>, Minute, "collectorErrorHandler")
    \/ FirstCollectStart
    \/ Dispatch
    \/ \E k \in Tasks : PullRequest(k)
    \/ \E k \in Tasks : PullReturn(k)
    \/ \E k \in Tasks : IncError(k)
    \/ \E k \in Tasks : CallErrorHandler(k)
    \/ \E k \in Tasks : EmitSample(k)
    \/ \E k \in Tasks : CollectErrorCounter(k)
    \/ \E k \in Tasks : WgDone(k)
    \/ CollectReturn

SpecAgg == Init /\ [][NextAgg]_vars

----------------------------------------------------------------------------
(* The exporter's collector with zones whose pulls fail in every way *)

\* Every error pullLogEntries can return to Collect, and a success.
ErrResponses ==
    {TransportFailure,
     HTTPResponse(StatusInternalServerError, <<TextLine>>, FALSE),
     HTTPResponse(StatusInternalServerError, <<>>, TRUE),
     HTTPResponse(StatusOK, <<BadLine>>, FALSE),
     HTTPResponse(StatusOK, <<Line1, BadLine>>, FALSE),
     HTTPResponse(StatusOK, <<Line1>>, FALSE)}
ErrScenarios == [ZoneNames -> ErrResponses]

NextErr ==
    \/ main
    \/ CollectStart(ErrScenarios)
    \/ Dispatch
    \/ \E k \in Tasks : PullRequest(k)
    \/ \E k \in Tasks : PullReturn(k)
    \/ \E k \in Tasks : IncError(k)
    \/ \E k \in Tasks : CallErrorHandler(k)
    \/ \E k \in Tasks : EmitSample(k)
    \/ \E k \in Tasks : CollectErrorCounter(k)
    \/ \E k \in Tasks : WgDone(k)
    \/ CollectReturn

SpecErr == Init /\ [][NextErr]_vars

----------------------------------------------------------------------------
(* The collector under a fair scheduler, with pulls that may never return *)
(* and a receiver that may stop                                           *)

LiveResponses == {TransportFailure, HTTPResponse(StatusOK, <<Line1>>, FALSE), NoAnswer}
LiveScenarios == [ZoneNames -> LiveResponses]

\* The goroutine that reads Collect's channel stops receiving.
ConsumerStop ==
    /\ consumer = "receiving"
    /\ pcMain # "idle"
    /\ consumer' = "stopped"
    /\ UNCHANGED <<collectorVars, lpapi, pull, startup, other, props>>

NextLive ==
    \/ main
    \/ CollectStart(LiveScenarios)
    \/ Dispatch
    \/ \E k \in Tasks : PullRequest(k)
    \/ \E k \in Tasks : PullReturn(k)
    \/ \E k \in Tasks : IncError(k)
    \/ \E k \in Tasks : CallErrorHandler(k)
    \/ \E k \in Tasks : EmitSample(k)
    \/ \E k \in Tasks : CollectErrorCounter(k)
    \/ \E k \in Tasks : WgDone(k)
    \/ CollectReturn
    \/ ConsumerStop

\* The Go scheduler lets every goroutine that can run take its next step:
\* the caller of Collect and each goroutine Collect starts.  Nothing makes
\* Prometheus start a cycle, a server answer or the receiver go on.
Fairness ==
    /\ WF_vars(CallerStep)
    /\ \A k \in 1..Len(ConfiguredZones) : WF_vars(k \in Tasks /\ TaskStepOf(k))

SpecLive == Init /\ [][NextLive]_vars /\ Fairness

----------------------------------------------------------------------------
(* The process from its start, in any environment *)

ZoneNameLists == {<<>>, <<"zone-a">>, ConfiguredZones}

Environments ==
    {Env(email, key, token, usk, names) :
        email \in {"", goodEmail}, key \in {"", goodKey}, token \in {"", goodToken},
        usk \in {"", goodUserServiceKey}, names \in ZoneNameLists}

NextMain ==
    \/ \E env \in Environments : Getenv(env)
    \/ CheckEnv
    \/ \E cfErr \in BOOLEAN : NewClients(cfErr)
    \/ \E found \in BOOLEAN : ZoneIDByName(found)
    \/ CallNewCollector
    \/ CheckCollector
    \/ MustRegister
    \/ \E bound \in BOOLEAN : ListenAndServe(bound)
    \/ Scrape(CtorScenarios)
    \/ Dispatch
    \/ \E k \in Tasks : PullRequest(k)
    \/ \E k \in Tasks : PullReturn(k)
    \/ \E k \in Tasks : IncError(k)
    \/ \E k \in Tasks : CallErrorHandler(k)
    \/ \E k \in Tasks : EmitSample(k)
    \/ \E k \in Tasks : CollectErrorCounter(k)
    \/ \E k \in Tasks : WgDone(k)
    \/ CollectReturn

SpecMain == Init /\ [][NextMain]_vars

----------------------------------------------------------------------------
(* Two invocations of Collect that overlap on the exporter's collector *)

\* What the zones answer the first invocation and the second (their windows
\* differ): a zone fails or serves one record to the first invocation, and
\* serves the same record twice to the second, which zone-b may fail.
FirstResponses == {TransportFailure, HTTPResponse(StatusOK, <<Line1>>, FALSE)}
SecondResponses == {TransportFailure, HTTPResponse(StatusOK, <<Line1, Line1>>, FALSE)}
FirstScenarios == [ZoneNames -> FirstResponses]
SecondScenarios ==
    {[z \in ZoneNames |-> IF z = "zone-b" THEN r
                          ELSE HTTPResponse(StatusOK, <<Line1, Line1>>, FALSE)] :
        r \in SecondResponses}

\* The first invocation on the collector.
FirstInvocation == cycle = 0 /\ CollectStart(FirstScenarios)

NextOverlap ==
    \/ main
    \/ FirstInvocation
    \/ Dispatch
    \/ \E k \in Tasks : PullRequest(k)
    \/ \E k \in Tasks : PullReturn(k)
    \/ \E k \in Tasks : IncError(k)
    \/ \E k \in Tasks : CallErrorHandler(k)
    \/ \E k \in Tasks : EmitSample(k)
    \/ \E k \in Tasks : CollectErrorCounter(k)
    \/ \E k \in Tasks : WgDone(k)
    \/ CollectReturn
    \/ OtherCollectStart(SecondScenarios)
    \/ OtherDispatch
    \/ \E k \in DOMAIN other.task : OtherPullRequest(k)
    \/ \E k \in DOMAIN other.task : OtherPullReturn(k)
    \/ \E k \in DOMAIN other.task : OtherIncError(k)
    \/ \E k \in DOMAIN other.task : OtherCallErrorHandler(k)
    \/ \E k \in DOMAIN other.task : OtherEmitSample(k)
    \/ \E k \in DOMAIN other.task : OtherCollectErrorCounter(k)
    \/ \E k \in DOMAIN other.task : OtherWgDone(k)
    \/ OtherCollectReturn

SpecOverlap == Init /\ [][NextOverlap]_vars

----------------------------------------------------------------------------
(* newCollector called with periods of every shape, and the collector run *)

LabelPeriods ==
    {0 - Minute, 0, Millisecond, Second, Minute, 90 * Minute,
     Hour + Minute + Second + Millisecond, 2 * Hour + 5 * Second,
     25 * Hour + 999 * Millisecond, logPeriodRange - Millisecond,
     logPeriodRange}

NextLabel ==
    \/ \E logPeriod \in LabelPeriods :
          newCollector("lpapi", <<"zone-a">>, logPeriod, "collectorErrorHandler")
    \/ CollectStart(CtorScenarios)
    \/ Dispatch
    \/ \E k \in Tasks : PullRequest(k)
    \/ \E k \in Tasks : PullReturn(k)
    \/ \E k \in Tasks : IncError(k)
    \/ \E k \in Tasks : CallErrorHandler(k)
    \/ \E k \in Tasks : EmitSample(k)
    \/ \E k \in Tasks : CollectErrorCounter(k)
    \/ \E k \in Tasks : WgDone(k)
    \/ CollectReturn

SpecLabel == Init /\ [][NextLabel]_vars

----------------------------------------------------------------------------
(* Properties *)

Range(s) == {s[i] : i \in DOMAIN s}
Occurrences(x, s) == Cardinality({i \in DOMAIN s : s[i] = x})

RECURSIVE SumSeq(_)
SumSeq(s) == IF s = <<>> THEN 0 ELSE Head(s) + SumSeq(Tail(s))

\* The places in what a task has sent of the response samples labelled as entry.
SamplesOf(entry, sent) ==
    {j \in DOMAIN sent :
        /\ sent[j].kind = "response"
        /\ sent[j].client_request_host = entry.ClientRequestHost
        /\ sent[j].edge_response_status = Itoa(entry.EdgeResponseStatus)
        /\ sent[j].origin_response_status = Itoa(entry.OriginResponseStatus)}

\* A task that is past its range loop.
Emitted(k) == task[k].pc \in {"wgdone", "done"}

\* A cycle has been started, and it has returned.
Started == Len(failedIn) >= 1
Returned == pcMain = "idle" /\ cycle >= 1

\* C1: whether its pull returned nil or an error, a task that has finished its
\* range loop has sent, for every tuple delivered to its handler, exactly one
\* sample, whose value is the number of deliveries of that tuple.
C1_PartialCountsEmitted ==
    \A k \in Tasks :
        Emitted(k) =>
            \A e \in Range(task[k].delivered) :
                /\ Cardinality(SamplesOf(e, task[k].sent)) = 1
                /\ \A j \in SamplesOf(e, task[k].sent) :
                      task[k].sent[j].value = Occurrences(e, task[k].delivered)

\* A failed pull after two deliveries of one tuple, whose sample says 2.
C1_Witness ==
    \E k \in Tasks :
        /\ task[k].pc = "done"
        /\ task[k].err # NoError
        /\ Len(task[k].delivered) = 2
        /\ \E j \in DOMAIN task[k].sent :
              task[k].sent[j].kind = "response" /\ task[k].sent[j].value = 2

\* The answer the remote gives the k-th entry of c.zoneIDs in this cycle.
Answer(k) == remote[c.zoneIDs[k]]

\* A 200 answer every line of which decodes.
Succeeds(resp) ==
    /\ resp.kind = "http"
    /\ resp.status = StatusOK
    /\ \A i \in DOMAIN resp.body : resp.body[i].wellFormed

\* Of the zones of this cycle exactly one answers 500, the others succeed.
OneZoneFails ==
    /\ Started
    /\ \E k \in Tasks :
          /\ Answer(k).kind = "http"
          /\ Answer(k).status = StatusInternalServerError
          /\ \A j \in Tasks \ {k} : Succeeds(Answer(j))

\* A step of the cycle in progress.
CycleStep ==
    \/ Dispatch
    \/ \E k \in Tasks : PullRequest(k)
    \/ \E k \in Tasks : PullReturn(k)
    \/ \E k \in Tasks : IncError(k)
    \/ \E k \in Tasks : CallErrorHandler(k)
    \/ \E k \in Tasks : EmitSample(k)
    \/ \E k \in Tasks : CollectErrorCounter(k)
    \/ \E k \in Tasks : WgDone(k)
    \/ CollectReturn

\* The entry a well-formed line of a body stands for.
EntryOf(line) == logEntry(line.host, line.edge, line.origin)

\* C2: with one zone answering 500 and the others succeeding, the cycle is
\* never stuck and never aborted, and once it has returned every successful
\* zone's records have their samples and the error counter has grown by 1.
C2_OneFailureOfZ ==
    OneZoneFails =>
        /\ ~crashed
        /\ pcMain # "idle" => ENABLED CycleStep
        /\ Returned =>
              /\ errorCounter = counterAtStart + 1
              /\ \A k \in Tasks :
                    Succeeds(Answer(k)) =>
                        \A i \in DOMAIN Answer(k).body :
                            LET e == EntryOf(Answer(k).body[i])
                            IN  /\ Cardinality(SamplesOf(e, task[k].sent)) = 1
                                /\ \A j \in SamplesOf(e, task[k].sent) :
                                      task[k].sent[j].value
                                          = Occurrences(Answer(k).body[i], Answer(k).body)

\* A returned cycle in which one zone answered 500 and the other sent
\* samples of two tuples.
C2_Witness ==
    /\ OneZoneFails
    /\ Returned
    /\ \E k \in Tasks :
          /\ Succeeds(Answer(k))
          /\ Len(ResponseSamples(task[k].sent)) = 2

\* C3: when Collect has returned, every task of the cycle, one per entry of
\* c.zoneIDs, is past wg.Done(): none is left to send, count or report.
C3_ReturnAfterAllTasks ==
    Returned =>
        /\ wg = 0
        /\ Tasks = 1..Len(c.zoneIDs)
        /\ \A k \in Tasks : task[k].pc = "done"

\* Collect has returned after a task reported an error and sent its metrics.
C3_Witness ==
    /\ Returned
    /\ \E k \in Tasks : Len(task[k].reported) = 1 /\ Len(task[k].sent) >= 2

\* The failed pulls whose increment is still to come.
PendingIncrements == Cardinality({k \in Tasks : task[k].pc = "inc"})

C4_Counts == errorCounter + PendingIncrements = SumSeq(failedIn)

\* C4: the error counter never decreases, and it is the number of pulls that
\* have returned an error since construction, less those whose task has not
\* yet made its increment; so at every return of Collect it is that number.
C4_CounterIsFailedPulls ==
    /\ [](C4_Counts)
    /\ [][errorCounter' >= errorCounter]_vars

\* Two cycles have returned, both pulls of both having failed.
C4_Witness ==
    /\ Returned
    /\ cycle = 2
    /\ errorCounter = 4

\* C5: when the remote answers a cycle as it answered the one before, each
\* task's response samples are those of the previous cycle (the same labels
\* with the same values, nothing added to them), while the error counter has
\* grown by this cycle's failures on top of the earlier ones: after the
\* second cycle it is the sum of the failures of both.
C5_FreshCountsCumulativeErrors ==
    (Returned /\ cycle >= 2 /\ comparable) =>
        /\ DOMAIN lastOut = Tasks
        /\ \A k \in Tasks :
              /\ Range(ResponseSamples(task[k].sent)) = Range(lastOut[k])
              /\ Len(ResponseSamples(task[k].sent)) = Len(lastOut[k])
        /\ errorCounter = counterAtStart + failedIn[cycle]
        /\ cycle = 2 => errorCounter = failedIn[1] + failedIn[2]

\* Two cycles answered alike, a zone failing in both after a record was
\* delivered.
C5_Witness ==
    /\ Returned
    /\ cycle = 2
    /\ comparable
    /\ errorCounter = 2
    /\ \E k \in Tasks :
          task[k].err # NoError /\ Len(ResponseSamples(task[k].sent)) = 1

\* What a task that has reached pc must have handed to the error sink.
ExpectedReports(k) ==
    IF task[k].pc \in {"emit", "wgdone", "done"}
       /\ pullLogEntries(task[k].resp, 0).err # NoError
    THEN <<pullLogEntries(task[k].resp, 0).err>>
    ELSE <<>>

\* C6: the error sink has been called once, with the pull's error, by every
\* task whose pull returned an error and which is past the call, and by no
\* other; no failure kills the process, and at Collect's return every task
\* has run to its end.
C6_SinkOncePerFailure ==
    /\ \A k \in Tasks : task[k].reported = ExpectedReports(k)
    /\ ~crashed
    /\ Returned => \A k \in Tasks : task[k].pc = "done"

\* A returned cycle: one pull failed and was reported, the sibling's
\* succeeded, was not reported, and its samples were sent.
C6_Witness ==
    /\ Returned
    /\ \E k, j \in Tasks :
          /\ task[k].err # NoError
          /\ Len(task[k].reported) = 1
          /\ task[j].err = NoError
          /\ task[j].reported = <<>>
          /\ Len(ResponseSamples(task[j].sent)) >= 1

\* C7: every request of a cycle carries the one window computed from the
\* instant read when the cycle began: end = now - 1 minute, start = end -
\* period; and the window does not change while the cycle runs.
C7_OneWindowPerCycle ==
    Started =>
        /\ end = now - 60 * 1000
        /\ start = end - c.logPeriod
        /\ \A k \in Tasks :
              \A i \in DOMAIN task[k].reqs :
                  task[k].reqs[i].start = start /\ task[k].reqs[i].end = end

\* Both zones have been asked, in a cycle begun at a later instant.
C7_Witness ==
    /\ now = Minute
    /\ Cardinality(Tasks) = 2
    /\ \A k \in Tasks : Len(task[k].reqs) = 1

\* C8: a cycle has one task per entry of c.zoneIDs, for that entry's zone;
\* a task issues no request before it starts, one when it starts and never
\* another, whatever the pull returns.
C8_OneRequestPerZone ==
    Started =>
        /\ Tasks = 1..Len(c.zoneIDs)
        /\ wg <= Len(c.zoneIDs)
        /\ \A k \in Tasks :
              /\ task[k].pc # "none" => task[k].zone = c.zoneIDs[k]
              /\ Len(task[k].reqs) = (IF task[k].pc \in {"none", "start"} THEN 0 ELSE 1)
              /\ \A i \in DOMAIN task[k].reqs : task[k].reqs[i].zone = c.zoneIDs[k]
        /\ Cardinality({k \in Tasks : task[k].pc # "none"}) = idx - 1

\* A returned cycle in which a pull failed and was asked for once.
C8_Witness ==
    /\ Returned
    /\ \E k \in Tasks : task[k].err # NoError /\ Len(task[k].reqs) = 1

\* Seven days less one minute, in milliseconds.
SevenDaysLessAMinute == (7 * 24 * 60 - 1) * 60 * 1000

\* C9: newCollector returns an error and no collector for an empty zone list
\* and for a period of seven days less one minute or more; given a client
\* and a zone list that is not empty, it returns a collector holding its
\* arguments for the period one second under that bound.
C9_ConstructionBounds ==
    ctor # "none" =>
        /\ (Len(args.zoneIDs) = 0 \/ args.logPeriod >= SevenDaysLessAMinute) =>
              ctor = "error" /\ c = NoCollector
        /\ (/\ args.api # Nil
            /\ Len(args.zoneIDs) > 0
            /\ args.logPeriod = SevenDaysLessAMinute - 1000) =>
              ctor = "ok" /\ [f \in DOMAIN args |-> c[f]] = args

\* A collector made with the period one second under the bound has run a
\* cycle.
C9_Witness ==
    /\ ctor = "ok"
    /\ args.logPeriod = SevenDaysLessAMinute - 1000
    /\ Returned

\* C10: newCollector called without an error sink returns an error, so no
\* task ever stands before the call of a sink that is nil.
C10_SinkRequired ==
    /\ (ctor # "none" /\ args.errorHandler = Nil) => ctor = "error"
    /\ \A k \in Tasks : task[k].pc = "handler" => c.errorHandler # Nil
    /\ ~crashed

\* Seven days, in milliseconds.
SevenDays == 7 * 24 * 60 * 60 * 1000

\* C30: the period of every collector newCollector returns is under seven
\* days less one minute, so the window of every cycle ends exactly one
\* minute before the instant it was computed from and starts less than seven
\* days before that instant.
C30_WindowWithinRange ==
    /\ ctor = "ok" => c.logPeriod < SevenDaysLessAMinute
    /\ (ctor = "ok" /\ Started) =>
          /\ now - end = 60 * 1000
          /\ now - start < SevenDays
          /\ \A k \in Tasks :
                \A i \in DOMAIN task[k].reqs :
                    /\ now - task[k].reqs[i].end = 60 * 1000
                    /\ now - task[k].reqs[i].start < SevenDays

\* A collector of the greatest period accepted has asked for a window that
\* starts one millisecond less than seven days before the instant read.
C30_Witness ==
    /\ ctor = "ok"
    /\ c.logPeriod = SevenDaysLessAMinute - 1
    /\ now = Minute
    /\ now - start = SevenDays - 1
    /\ \E k \in Tasks : Len(task[k].reqs) = 1

\* C31: every collector newCollector returns asks, in every cycle, for a
\* window that is not empty: its start is strictly earlier than its end, in
\* the window Collect computes and in every request sent for it.
C31_NonEmptyWindow ==
    (ctor = "ok" /\ Started) =>
        /\ start < end
        /\ \A k \in Tasks :
              \A i \in DOMAIN task[k].reqs :
                  task[k].reqs[i].start < task[k].reqs[i].end

\* The components of a period: its whole hours, and the whole minutes,
\* seconds and milliseconds of what the larger units leave, each of these
\* three below the next larger unit.
HoursOf(d) == d \div Hour
MinutesOf(d) == (d % Hour) \div Minute
SecondsOf(d) == (d % Minute) \div Second
MillisecondsOf(d) == d % Second

Component(n, unit) == IF n # 0 THEN Itoa(n) \o unit ELSE <<>>

\* The non-zero components of d in the order hours, minutes, seconds,
\* milliseconds.
ComponentsOf(d) ==
    Component(HoursOf(d), <<"h">>) \o Component(MinutesOf(d), <<"m">>)
    \o Component(SecondsOf(d), <<"s">>) \o Component(MillisecondsOf(d), <<"m", "s">>)

ResponseSamplesSent == UNION {Range(ResponseSamples(task[k].sent)) : k \in Tasks}

\* C32: the period label of the collector newCollector returned lists the
\* non-zero components of the period given, hours first, then minutes,
\* seconds and milliseconds (one minute is 1m, ninety minutes 1h30m), and
\* every response sample of every cycle carries that label.
C32_PeriodLabel ==
    ctor = "ok" =>
        /\ c.responseDesc.period = ComponentsOf(args.logPeriod)
        /\ args.logPeriod = Minute => c.responseDesc.period = <<"1", "m">>
        /\ args.logPeriod = 90 * Minute =>
              c.responseDesc.period = <<"1", "h", "3", "0", "m">>
        /\ \A m \in ResponseSamplesSent :
              Desc(m).period = ComponentsOf(args.logPeriod)

\* The same for the collectors of a period that is not negative.
PeriodLabelOfNonNegative ==
    (ctor = "ok" /\ args.logPeriod >= 0) =>
        /\ c.responseDesc.period = ComponentsOf(args.logPeriod)
        /\ \A m \in ResponseSamplesSent :
              Desc(m).period = ComponentsOf(args.logPeriod)

\* The descriptor of a collector is the one newCollector gave it, in every
\* step of every cycle.
PeriodLabelFixed == [][ctor = "ok" => c'.responseDesc = c.responseDesc]_vars

----------------------------------------------------------------------------
(* Properties of a pull *)

\* The pull has returned after a 200 response was received.
Returned200 ==
    /\ pull.pc = "returned"
    /\ pull.resp.kind = "http"
    /\ pull.resp.status = StatusOK

\* The first k lines of the body received decode.
WellFormedPrefix(k) == \A i \in 1..k : pull.resp.body[i].wellFormed

\* The handler returns no error for the first k deliveries.
HandlerAccepts(k) == pull.failAt = 0 \/ pull.failAt > k

\* C11: when the body of a 200 response is k lines that decode followed by
\* one that does not, the handler has been called k times, on the records of
\* those k lines in their order and on nothing after them, and the pull
\* returns the decoding error.
C11_StopsAtMalformedLine ==
    Returned200 =>
        \A k \in 0..(Len(pull.resp.body) - 1) :
            (/\ WellFormedPrefix(k)
             /\ ~pull.resp.body[k + 1].wellFormed
             /\ HandlerAccepts(k)) =>
                /\ Len(pull.delivered) = k
                /\ \A i \in 1..k : pull.delivered[i] = EntryOf(pull.resp.body[i])
                /\ pull.err # NoError
                /\ pull.err.op = "json"

\* Two records were delivered, then a line did not decode, with a record
\* behind it.
C11_Witness ==
    /\ Returned200
    /\ pull.resp.body = <<Line1, Line1, BadLine, Line1>>
    /\ Len(pull.delivered) = 2
    /\ pull.err.op = "json"

\* The client holds the credentials the mock endpoint accepts, in one of
\* the three modes.
ValidCredentials ==
    \/ lpapi = newLogpullAPI(goodKey, goodEmail)
    \/ lpapi = newLogpullAPIWithToken(goodToken)
    \/ lpapi = newLogpullAPIWithUserServiceKey(goodUserServiceKey)

\* The pull was answered by the mock endpoint, asked for a zone and a window
\* it serves, over a connection that held, with lines that all decode.
CompliantServer ==
    /\ pull.pc = "returned"
    /\ pull.server.kind = "mock"
    /\ pull.server.breakAt = NoBreak
    /\ \A i \in DOMAIN pull.server.body : pull.server.body[i].wellFormed
    /\ pull.zone = goodZoneID
    /\ pull.start = goodStart
    /\ pull.end = goodEnd

\* C12: in each of the three modes, with the credentials the server accepts,
\* a pull whose handler returns no error has called it once for every line
\* the server wrote, in the order of the lines, and returns nil.
C12_OncePerLineInOrder ==
    (ValidCredentials /\ CompliantServer /\ HandlerAccepts(Len(pull.server.body))) =>
        /\ Len(pull.delivered) = Len(pull.server.body)
        /\ \A i \in DOMAIN pull.server.body :
              pull.delivered[i] = EntryOf(pull.server.body[i])
        /\ pull.err = NoError

\* A user-service-key client has pulled three lines of two different tuples.
C12_Witness ==
    /\ lpapi.authType = authUserService
    /\ ValidCredentials
    /\ CompliantServer
    /\ pull.delivered = <<EntryOf(Line1), EntryOf(Line1), EntryOf(Line2)>>
    /\ pull.err = NoError

\* The pull has returned after a response with a status other than 200.
ReturnedNot200 ==
    /\ pull.pc = "returned"
    /\ pull.resp.kind = "http"
    /\ pull.resp.status # StatusOK

\* The body the server wrote for the request of the pull.
ServerBody == Do(pull.req, [pull.server EXCEPT !.breakAt = NoBreak]).body

\* C13 as stated: after any answer with a status other than 200 the pull
\* returns an error that carries the text of the body the server wrote, and
\* the handler was not called.
C13_NonOKCarriesBody ==
    ReturnedNot200 =>
        /\ pull.err # NoError
        /\ pull.err.text = ServerBody
        /\ pull.delivered = <<>>

\* C13 amended: after any answer with a status other than 200 the pull
\* returns an error and the handler was not called; the error names the
\* status and carries the text of the body the server wrote when the body
\* was read to its end, and is the error of the read when reading it failed.
C13_NonOKCarriesBodyRead ==
    ReturnedNot200 =>
        /\ pull.err # NoError
        /\ pull.delivered = <<>>
        /\ pull.server.breakAt = NoBreak =>
              /\ pull.err.op = "unexpected api response"
              /\ pull.err.status = pull.resp.status
              /\ pull.err.text = ServerBody
        /\ pull.server.breakAt # NoBreak =>
              /\ pull.err.op = "reading api response body"
              /\ pull.err.text = <<>>

\* The zone without log retention was asked for with good credentials: the
\* error carries the 400 and the server's sentence.
C13_Witness ==
    /\ ReturnedNot200
    /\ ValidCredentials
    /\ pull.zone = logRetentionDisabledZoneID
    /\ pull.err.status = StatusBadRequest
    /\ pull.err.text = Text("Retention is not turned on. Please enable log retention")

\* The names of the authentication headers, and those the request carries.
AuthHeaderNames ==
    {"Authorization", "X-Auth-Key", "X-Auth-Email", "X-Auth-User-Service-Key"}
AuthHeadersSent == {h \in pull.req.headers : h.name \in AuthHeaderNames}
AuthNamesSent == {h.name : h \in AuthHeadersSent}

\* A request has been made for the pull.
RequestMade == pull.pc \in {"sent", "returned"} /\ pull.req # NoRequest

\* C14: the request of a pull carries the headers of the mode of the
\* constructor that made the client, each once and with the client's
\* credential, and no header of another mode: the bearer Authorization for a
\* token client, X-Auth-Key and X-Auth-Email for a key and email client,
\* X-Auth-User-Service-Key for a user-service-key client.
C14_OneAuthHeaderSet ==
    RequestMade =>
        /\ Cardinality(AuthHeadersSent) = Cardinality(AuthNamesSent)
        /\ \/ /\ lpapi = newLogpullAPIWithToken(lpapi.apiToken)
              /\ AuthNamesSent = {"Authorization"}
              /\ Get(pull.req, "Authorization") = <<"Bearer ", lpapi.apiToken>>
           \/ /\ lpapi = newLogpullAPI(lpapi.apiKey, lpapi.apiEmail)
              /\ AuthNamesSent = {"X-Auth-Key", "X-Auth-Email"}
              /\ Get(pull.req, "X-Auth-Key") = <<lpapi.apiKey>>
              /\ Get(pull.req, "X-Auth-Email") = <<lpapi.apiEmail>>
           \/ /\ lpapi = newLogpullAPIWithUserServiceKey(lpapi.apiUserService)
              /\ AuthNamesSent = {"X-Auth-User-Service-Key"}
              /\ Get(pull.req, "X-Auth-User-Service-Key") = <<lpapi.apiUserService>>

\* A key and email client has sent a request and the server has let it in.
C14_Witness ==
    /\ RequestMade
    /\ lpapi = newLogpullAPI(goodKey, goodEmail)
    /\ AuthNamesSent = {"X-Auth-Key", "X-Auth-Email"}
    /\ Returned200

\* The records of the lines received, in their order.
EntriesReceived == [i \in DOMAIN pull.resp.body |-> EntryOf(pull.resp.body[i])]

\* The connection of the pull broke while the body was read, after fewer
\* lines than the server wrote.
Truncated ==
    /\ pull.server.breakAt # NoBreak
    /\ pull.resp.readErr
    /\ pull.resp.body = SubSeq(ServerBody, 1, Min(pull.server.breakAt, Len(ServerBody)))

\* C28: a pull that got a 200 returns nil whenever every line the scan got
\* decodes and the handler returns no error, whether the scan ended at the
\* end of the body or because reading the body failed: the records of the
\* lines read before the failure have been delivered, the error of the read
\* is not returned, and Collect, told nil, counts no failure.
C28_TruncatedIsSuccess ==
    (/\ Returned200
     /\ WellFormedPrefix(Len(pull.resp.body))
     /\ HandlerAccepts(Len(pull.resp.body))) =>
        /\ pull.err = NoError
        /\ pull.delivered = EntriesReceived
        /\ AfterPull(pull.err) = "emit"
        /\ pull.server.breakAt # NoBreak => Truncated

\* The server wrote three lines and the connection broke after the first:
\* one record was delivered and the pull returned nil.
C28_Witness ==
    /\ Returned200
    /\ Truncated
    /\ pull.server.body = <<Line1, Line1, Line2>>
    /\ pull.server.breakAt = 1
    /\ pull.delivered = <<EntryOf(Line1)>>
    /\ pull.err = NoError

\* C29: when the handler returns an error for the k-th record of a response,
\* the pull stops there: it has called the handler on the first k records
\* and on none after them, and returns the handler's error, wrapped.
C29_StopsAtHandlerError ==
    Returned200 =>
        \A k \in 1..Len(pull.resp.body) :
            (pull.failAt = k /\ WellFormedPrefix(k)) =>
                /\ Len(pull.delivered) = k
                /\ \A i \in 1..k : pull.delivered[i] = EntryOf(pull.resp.body[i])
                /\ pull.err # NoError
                /\ pull.err.op = "handler"

\* The handler failed on the first of three records: the other two were
\* not delivered.
C29_Witness ==
    /\ Returned200
    /\ pull.failAt = 1
    /\ pull.resp.body = <<Line1, Line1, Line2>>
    /\ pull.delivered = <<EntryOf(Line1)>>
    /\ pull.err.op = "handler"

\* The three kinds of errors.go, as the returns of pullLogEntries fall under
\* them: the request could not be performed, the status was not 200, a line
\* did not decode.
ErrKinds == {"transport", "status", "json"}

\* C16: every error a pull returns is of exactly one of the three kinds,
\* the kind of its cause (transport when the request could not be performed,
\* status after a response other than 200, json after a line that does not
\* decode), and carries the name of the operation.
C16_ThreeKinds ==
    (pull.pc = "returned" /\ pull.err # NoError) =>
        /\ pull.err.kind \in ErrKinds
        /\ pull.err.op # Nil
        /\ pull.err.kind = "transport" <=> pull.resp.kind = "transport"
        /\ pull.err.kind = "status" <=> ReturnedNot200
        /\ pull.err.kind = "json" <=> Returned200

----------------------------------------------------------------------------
(* Properties of the aggregation *)

\* The values of the response samples a task has sent, in the order sent.
SampleValues(k) ==
    [i \in DOMAIN ResponseSamples(task[k].sent) |-> ResponseSamples(task[k].sent)[i].value]

\* C15: whatever sequence of records a task's map was fed, once its range
\* loop is over the task has sent one response sample for each distinct
\* tuple of the sequence and no other, the value of a tuple's sample is the
\* number of times the tuple occurs, and the values add up to the length of
\* the sequence.
C15_OneSamplePerTuple ==
    \A k \in Tasks :
        Emitted(k) =>
            /\ Len(ResponseSamples(task[k].sent)) = Cardinality(Range(task[k].delivered))
            /\ \A e \in Range(task[k].delivered) :
                  /\ Cardinality(SamplesOf(e, task[k].sent)) = 1
                  /\ \A j \in SamplesOf(e, task[k].sent) :
                        task[k].sent[j].value = Occurrences(e, task[k].delivered)
            /\ SumSeq(SampleValues(k)) = Len(task[k].delivered)

\* MaxRecords records of one tuple gave the single pair of the tuple and
\* MaxRecords.
C15_Witness ==
    \E k \in Tasks :
        /\ task[k].pc = "done"
        /\ task[k].delivered = Repeat(EntryOf(Line1), MaxRecords)
        /\ ResponseSamples(task[k].sent) = <<ResponseMetric(EntryOf(Line1), MaxRecords)>>

----------------------------------------------------------------------------
(* Properties of the cycle *)

\* The error metrics the tasks of the cycle have handed to the channel.
ErrorSamples(k) == SelectSeq(task[k].sent, LAMBDA m : m.kind = "errors")
ErrorSamplesOfCycle == SumSeq([k \in Tasks |-> Len(ErrorSamples(k))])

\* C17: a cycle hands the error count to the channel once: never more than
\* once while it runs, and exactly once by the time Collect returns.
C17_ErrorCountOncePerCycle ==
    Started =>
        /\ ErrorSamplesOfCycle <= 1
        /\ Returned => ErrorSamplesOfCycle = 1

C19_Owned ==
    /\ \A id \in DOMAIN maps :
          \E k \in Running :
              /\ task[k].responses = id
              /\ maps[id].users = {k}
              /\ \A j \in Running \ {k} : task[j].responses # id
    /\ \A k \in Running :
          /\ task[k].responses \in DOMAIN maps
          /\ task[k].pc # "pulling" =>
                /\ DOMAIN maps[task[k].responses].content = Range(task[k].delivered)
                /\ \A e \in Range(task[k].delivered) :
                      maps[task[k].responses].content[e] = Occurrences(e, task[k].delivered)
    /\ pcMain = "idle" => maps = NoMaps

\* A step of a task changes nothing of another task, no map but its own
\* and nothing of the collector or of the cycle: beside its own locals it
\* changes only the error counter, what the channel has been sent and the
\* wait group it joins by.
C19_Step ==
    \A k \in Tasks :
        TaskStepOf(k) =>
            /\ \A j \in Tasks \ {k} : task'[j] = task[j]
            /\ \A id \in DOMAIN maps \ {task[k].responses, task'[k].responses} :
                  id \in DOMAIN maps' /\ maps'[id] = maps[id]
            /\ UNCHANGED <<ctor, args, c, remote, pcMain, idx, now, start, end, cycle>>

\* C19: each map is made, written and read by exactly one task of one cycle,
\* and the tasks share nothing they change but the error counter and the
\* channel (and the wait group, by which they are joined).
C19_PrivateTables == [](C19_Owned) /\ [][C19_Step]_vars

\* Both tasks are sending samples, each from its own map.
C19_Witness ==
    /\ Cardinality(DOMAIN maps) = 2
    /\ \A k \in Tasks :
          /\ task[k].pc = "emit"
          /\ Len(task[k].sent) = 0
          /\ maps[task[k].responses].users = {k}
          /\ DOMAIN maps[task[k].responses].content # {}

\* Where a task stands after a step that moved it, in the order of the
\* statements of the goroutine: the pull is sent and returns; on an error the
\* counter is incremented, then the sink is called; then the samples are sent,
\* then the error count, then wg.Done().
C24_Moves(k) ==
    LET from == task[k].pc
        to == task'[k].pc
    IN  \/ from = "none" /\ to = "start"
        \/ from = "start" /\ to = "pulling"
        \/ /\ from = "pulling" /\ to = "inc"
           /\ task'[k].err # NoError
        \/ /\ from = "pulling" /\ to = "emit"
           /\ task'[k].err = NoError
        \/ /\ from = "inc" /\ to = "handler"
           /\ errorCounter' = errorCounter + 1
           /\ task'[k].reported = <<>>
        \/ /\ from = "handler" /\ to = "emit"
           /\ task'[k].reported = <<task[k].err>>
           /\ errorCounter' = errorCounter
        \/ /\ from = "emit" /\ to = "wgdone"
           /\ task[k].pending = {}
           /\ task'[k].sent = Append(task[k].sent, ErrorMetric(errorCounter))
        \/ /\ from = "wgdone" /\ to = "done"
           /\ task'[k].sent = task[k].sent

\* Within a cycle a task moves only along that order, it sends only from
\* its range loop on, and the error counter changes only in the step from
\* the increment to the sink.
C24_Step ==
    \A k \in Tasks :
        (k \in DOMAIN task' /\ Len(failedIn') = Len(failedIn)) =>
            /\ task'[k].pc # task[k].pc => C24_Moves(k)
            /\ task'[k].sent # task[k].sent => task[k].pc = "emit"
            /\ task'[k].reported # task[k].reported => task[k].pc = "handler"

\* What a task has done by the place it stands at: nothing is sent, counted
\* or reported while the pull is in progress; nothing is sent before the
\* error has been counted and reported; the response samples come before
\* the error count, which is the last thing sent.
C24_Done ==
    \A k \in Tasks :
        /\ task[k].pc \in {"none", "start", "pulling"} =>
              /\ task[k].sent = <<>>
              /\ task[k].reported = <<>>
              /\ task[k].err = NoError
        /\ task[k].pc \in {"inc", "handler"} =>
              /\ task[k].sent = <<>>
              /\ task[k].reported = <<>>
              /\ task[k].err # NoError
        /\ task[k].pc = "emit" =>
              /\ ErrorSamples(k) = <<>>
              /\ task[k].err # NoError => task[k].reported = <<task[k].err>>
        /\ task[k].pc \in {"wgdone", "done"} =>
              /\ Len(ErrorSamples(k)) = 1
              /\ task[k].sent[Len(task[k].sent)].kind = "errors"
              /\ Len(ResponseSamples(task[k].sent)) = Cardinality(Range(task[k].delivered))

\* C24: the steps of a zone task come in one order: the pull returns; then,
\* on an error, the counter is incremented and after that the sink called;
\* then the samples of the zone are sent; then the error count.  No sample
\* of a zone is sent while the pull of that zone is in progress.
C24_FixedOrder == [](C24_Done) /\ [][C24_Step]_vars

\* A task whose pull failed after a record has gone through every step:
\* counted, reported, one sample and then the error count sent.
C24_Witness ==
    \E k \in Tasks :
        /\ task[k].pc = "done"
        /\ task[k].err # NoError
        /\ task[k].reported = <<task[k].err>>
        /\ Len(task[k].sent) = 2
        /\ task[k].sent[1].kind = "response"
        /\ task[k].sent[2].kind = "errors"

\* The tasks of the cycle that have made their increment.
Incremented == {j \in Tasks : task[j].err # NoError /\ task[j].pc # "inc"}

\* The tasks that have sent the error count.
SentErrorCount == {j \in Tasks : task[j].pc \in {"wgdone", "done"}}

\* The step in which the k-th task sends the error count.
SendsErrorCount(k) == task[k].pc = "emit" /\ task'[k].pc = "wgdone"

\* At the step a task sends the error count its own increment, if its pull
\* failed, has been made, and the count sent holds the increments made so
\* far in the cycle; the last task of the cycle to send it does so when no
\* increment of the cycle is still to come, and sends the count of all the
\* failed pulls of the cycle.
C25_Step ==
    \A k \in Tasks :
        SendsErrorCount(k) =>
            LET sample == task'[k].sent[Len(task'[k].sent)]
            IN  /\ sample.kind = "errors"
                /\ task[k].err # NoError => k \in Incremented
                /\ sample.value = counterAtStart + Cardinality(Incremented)
                /\ SentErrorCount = Tasks \ {k} =>
                      /\ \A j \in Tasks : task[j].pc # "inc"
                      /\ Incremented = {j \in Tasks : task[j].err # NoError}
                      /\ sample.value = counterAtStart + failedIn[Len(failedIn)]
                      /\ sample.value = errorCounter

\* Once Collect has returned the greatest count sent, that of the last
\* sending (the counter never decreases), is the counter's value: the value
\* before the cycle and the failed pulls of the cycle; and every task whose
\* pull failed has sent a count that holds its own increment.
C25_AtReturn ==
    Returned =>
        /\ \E k \in Tasks :
              /\ ErrorSamples(k)[1].value = errorCounter
              /\ \A j \in Tasks : ErrorSamples(j)[1].value <= ErrorSamples(k)[1].value
        /\ errorCounter = counterAtStart + failedIn[Len(failedIn)]
        /\ \A k \in Tasks :
              task[k].err # NoError => ErrorSamples(k)[1].value >= counterAtStart + 1

\* C25: in every cycle and under every interleaving, the last sending of the
\* error count comes after every increment of the cycle, and the sending by
\* a task whose pull failed comes after that task's increment.
C25_LastEmissionAfterIncrements == [](C25_AtReturn) /\ [][C25_Step]_vars

\* A task that finished early has sent a count that lacks the increment its
\* sibling, whose pull failed too, made after it: the two tasks of the
\* returned cycle have sent different counts, the greater one the counter's.
C25_Witness ==
    /\ Returned
    /\ \E k, j \in Tasks :
          /\ task[k].err # NoError
          /\ task[j].err # NoError
          /\ ErrorSamples(k)[1].value = counterAtStart + 1
          /\ ErrorSamples(j)[1].value = counterAtStart + 2
          /\ errorCounter = counterAtStart + 2

\* The tasks that were delivered the tuple e, and the samples labelled as e
\* in the output of the cycle, as pairs of the sending task and the place
\* in what it sent.
DeliveredTo(e) == {k \in Tasks : e \in Range(task[k].delivered)}
CycleSamplesOf(e) == UNION {{<<k, j>> : j \in SamplesOf(e, task[k].sent)} : k \in Tasks}
EntriesOfCycle == UNION {Range(task[k].delivered) : k \in Tasks}

\* C26: the samples are sent zone by zone and never merged: when the pulls of
\* two zones of a cycle both deliver the tuple t, the output of the cycle
\* holds two samples labelled as t, one sent by each zone's task with the
\* count of that zone's deliveries, and none with the sum.
C26_NoMergeAcrossZones ==
    Returned =>
        \A e \in EntriesOfCycle :
            /\ Cardinality(CycleSamplesOf(e)) = Cardinality(DeliveredTo(e))
            /\ \A k \in DeliveredTo(e) :
                  /\ Cardinality(SamplesOf(e, task[k].sent)) = 1
                  /\ \A j \in SamplesOf(e, task[k].sent) :
                        task[k].sent[j].value = Occurrences(e, task[k].delivered)

\* Both zones delivered the tuple of Line1, one once and the other twice: the
\* returned cycle has sent two samples with that label set, of values 1 and 2.
C26_Witness ==
    /\ Returned
    /\ DeliveredTo(EntryOf(Line1)) = Tasks
    /\ Cardinality(Tasks) = 2
    /\ Cardinality(CycleSamplesOf(EntryOf(Line1))) = 2
    /\ {task[k].sent[j].value : <<k, j>> \in CycleSamplesOf(EntryOf(Line1))} = {1, 2}

----------------------------------------------------------------------------
(* Liveness of the cycle *)

\* Every pull of the cycle in progress returns: no zone's server keeps the
\* request without answering.
PullsReturn == \A z \in ZoneNames : remote[z] # NoAnswer

\* The n-th cycle is running; it has returned and left the collector idle,
\* with no task of it running, no map of it in memory and the wait group
\* at zero.
CycleRunning(n) == pcMain # "idle" /\ cycle = n
CycleOver(n) ==
    /\ pcMain = "idle"
    /\ cycle = n + 1
    /\ wg = 0
    /\ Running = {}
    /\ \A k \in Tasks : task[k].pc = "done"
    /\ maps = NoMaps

\* C20: under the fair scheduler, if the receiver of the channel never stops
\* receiving, every cycle all of whose pulls return comes to its return,
\* with the collector idle and no task of the cycle running.
C20_CycleReturns ==
    [](consumer = "receiving") =>
        \A n \in 0..(MaxCycles - 1) :
            (CycleRunning(n) /\ PullsReturn) ~> CycleOver(n)

\* The pull of the k-th task hangs: its request is out and the server never
\* answers it.
Hangs(k) == task[k].pc = "pulling" /\ task[k].resp = NoAnswer

\* In the n-th cycle some zone's server never answers and the zone of the
\* k-th task is not that one.
SiblingOfHanging(n, k) ==
    /\ CycleRunning(n)
    /\ k \in Tasks
    /\ remote[c.zoneIDs[k]] # NoAnswer
    /\ \E z \in ZoneNames : remote[z] = NoAnswer

\* The k-th task of the n-th cycle has run to its end while the cycle has not
\* returned: its pull has returned, its error if any has been counted and
\* reported, once, and the samples of its records and the error count have
\* been sent.
SiblingFinished(n, k) ==
    /\ CycleRunning(n)
    /\ task[k].pc = "done"
    /\ task[k].err = pullLogEntries(remote[c.zoneIDs[k]], 0).err
    /\ task[k].reported = (IF task[k].err # NoError THEN <<task[k].err>> ELSE <<>>)
    /\ Len(ResponseSamples(task[k].sent)) = Cardinality(Range(task[k].delivered))
    /\ Len(task[k].sent) = Len(ResponseSamples(task[k].sent)) + 1

\* While a pull hangs Collect has not returned, and a hanging pull hangs
\* for ever: nothing makes it return and nothing cancels its task.
C21_HangingBlocksCycle ==
    \A k \in Tasks : Hangs(k) => pcMain = "wait" \/ pcMain = "loop"
C21_HangingStays ==
    \A k \in Tasks : Hangs(k) => (k \in DOMAIN task' /\ Hangs(k)' /\ cycle' = cycle)

\* C21: when the pull of one zone never returns, the cycle never returns
\* (Collect stays in its wait, the hanging task in its pull), and yet, under
\* the fair scheduler and with a receiver that keeps receiving, the task of
\* every other zone runs to its end: its pull returns, it counts and reports
\* its own failure if any, and sends its samples and the error count.
C21_HangingZoneBlocksNoSibling ==
    /\ [](C21_HangingBlocksCycle)
    /\ [][C21_HangingStays]_vars
    /\ [](consumer = "receiving") =>
           \A n \in 0..(MaxCycles - 1) : \A k \in 1..Len(ConfiguredZones) :
               SiblingOfHanging(n, k) ~> SiblingFinished(n, k)

\* One zone's pull hangs; the other zone's failed, was counted and reported,
\* and its task has finished; Collect waits.
C21_Witness ==
    /\ pcMain = "wait"
    /\ \E k, j \in Tasks :
          /\ Hangs(k)
          /\ task[j].pc = "done"
          /\ task[j].err # NoError
          /\ Len(task[j].reported) = 1
          /\ Len(task[j].sent) = 1
    /\ errorCounter >= 1

\* The last cycle has returned, both pulls having returned, one with an
\* error, and everything having been received.
C20_Witness ==
    /\ CycleOver(MaxCycles - 1)
    /\ PullsReturn
    /\ consumer = "receiving"
    /\ \E k, j \in Tasks :
          /\ task[k].err # NoError
          /\ Len(ResponseSamples(task[j].sent)) = 1
          /\ Len(task[j].sent) = 2

----------------------------------------------------------------------------
(* Properties of setAPIProperties *)

\* C33: after a call of setAPIProperties the client's base URL and HTTP
\* client are the values given, the default standing in for a zero value
\* whatever the setting was before, and its authentication mode and
\* credentials are those it had before the call.
C33_SetsOnlyURLAndClient ==
    props.calls > 0 =>
        /\ lpapi.baseURL = IF props.baseURL = ""
                           THEN "https://api.cloudflare.com/client/v4"
                           ELSE props.baseURL
        /\ lpapi.httpClient = IF props.httpClient = Nil
                              THEN "http.DefaultClient"
                              ELSE props.httpClient
        /\ lpapi.authType = props.before.authType
        /\ lpapi.apiKey = props.before.apiKey
        /\ lpapi.apiEmail = props.before.apiEmail
        /\ lpapi.apiToken = props.before.apiToken
        /\ lpapi.apiUserService = props.before.apiUserService

\* A client made from a token, with a base URL and an HTTP client of a test
\* server set by a first call, has been reset to both defaults by a second
\* call with zero values, and still holds its token.
C33_Witness ==
    /\ props.calls = 2
    /\ props.before.baseURL = "http://127.0.0.1:1"
    /\ props.before.httpClient = "ts.Client()"
    /\ props.baseURL = ""
    /\ props.httpClient = Nil
    /\ lpapi.baseURL = defaultBaseURL
    /\ lpapi.httpClient = DefaultClient
    /\ lpapi.authType = authToken
    /\ lpapi.apiToken = goodToken

----------------------------------------------------------------------------
(* Properties of the start of the process *)

\* Everything that comes before the registration has succeeded: the
\* environment passed its checks, the client was made, every zone name of the
\* list was looked up and found, and newCollector returned a collector of
\* the ids found.
StartupSucceeded ==
    /\ EnvError(startup.env) = Nil
    /\ startup.cfapi # Nil
    /\ startup.lookupErrs = 0
    /\ startup.zoneIDs = startup.env.zoneNames
    /\ ctor = "ok"
    /\ c.zoneIDs = startup.zoneIDs
    /\ startup.fatal \in {Nil, "listen"}

\* C22: the collector is registered, and the endpoint serves, only after the
\* checks of the credentials, the lookup of every zone name and the
\* construction of the collector have all succeeded; a cycle runs only in a
\* process that serves with the collector registered; and a failure of any
\* of them ends the process, no cycle having run.
C22_ServeAfterStartup ==
    /\ startup.registered => StartupSucceeded
    /\ startup.serving => startup.registered /\ startup.fatal = Nil
    /\ (Started \/ pcMain # "idle") => startup.serving
    /\ startup.fatal # Nil =>
          /\ startup.pc = "exited"
          /\ ~startup.serving
          /\ ~Started
          /\ pcMain = "idle"
    /\ ~StartupSucceeded => ~Started

\* The names of two zones were looked up, the collector of their ids was
\* registered, the endpoint serves and a cycle has run.
C22_Witness ==
    /\ startup.serving
    /\ startup.registered
    /\ startup.zoneIDs = ConfiguredZones
    /\ Returned
    /\ \A k \in Tasks : Len(task[k].reqs) = 1

\* The authentication options the environment provides: the key with the
\* email, the token, the user-service key.
AuthOptions(env) ==
    (IF env.apiKey # "" /\ env.apiEmail # "" THEN {"key and email"} ELSE {})
    \cup (IF env.apiToken # "" THEN {"token"} ELSE {})
    \cup (IF env.apiUserServiceKey # "" THEN {"user-service key"} ELSE {})

\* main has made its checks of the credentials, and has rejected them.
AuthChecked == startup.pc \notin {"none", "check"}
AuthRejected == startup.fatal \in {NeitherSpecified, BothSpecified, KeyWithoutEmail}

\* C23: the start accepts the credentials of a configuration if and only if
\* the configuration provides exactly one of the three options: the API key
\* with the email, the API token, the user-service key.
C23_ExactlyOneAuthOption ==
    AuthChecked => (~AuthRejected <=> Cardinality(AuthOptions(startup.env)) = 1)

----------------------------------------------------------------------------
(* Properties of overlapping invocations *)

\* The response samples the pull of a zone answered resp gives rise to, and
\* the number of zones whose pull fails when the zones answer as in r.
ExpectedSamples(resp) ==
    LET d == pullLogEntries(resp, 0).delivered
    IN  {ResponseMetric(e, Occurrences(e, d)) : e \in Range(d)}
FailedPulls(r) ==
    Cardinality({k \in 1..Len(c.zoneIDs) : pullLogEntries(r[c.zoneIDs[k]], 0).err # NoError})

\* What the tasks of the first and of the second invocation have sent to
\* the channel of their invocation comes from their own pull.
OwnSamples(k) ==
    Range(ResponseSamples(task[k].sent)) \subseteq ExpectedSamples(remote[c.zoneIDs[k]])
OtherOwnSamples(k) ==
    Range(ResponseSamples(other.task[k].sent))
        \subseteq ExpectedSamples(other.remote[c.zoneIDs[k]])

BothReturned == pcMain = "idle" /\ cycle = 1 /\ other.pcMain = "returned"

\* C27: when two invocations of Collect overlap on one collector, every map
\* is used by one goroutine of one invocation, each invocation asks for its
\* own window and sends to its channel the samples of its own pulls and no
\* other; and once both have returned each has sent all the samples of its
\* pulls and the error counter has grown by the failed pulls of both.
C27_OverlappingInvocations ==
    /\ \A id \in DOMAIN maps : Cardinality(maps[id].users) = 1
    /\ \A k \in Tasks :
          /\ OwnSamples(k)
          /\ \A i \in DOMAIN task[k].reqs :
                task[k].reqs[i].start = start /\ task[k].reqs[i].end = end
    /\ \A k \in DOMAIN other.task :
          /\ OtherOwnSamples(k)
          /\ \A i \in DOMAIN other.task[k].reqs :
                /\ other.task[k].reqs[i].start = other.start
                /\ other.task[k].reqs[i].end = other.end
    /\ BothReturned =>
          /\ \A k \in Tasks :
                /\ Range(ResponseSamples(task[k].sent))
                      = ExpectedSamples(remote[c.zoneIDs[k]])
                /\ Len(ResponseSamples(task[k].sent))
                      = Cardinality(ExpectedSamples(remote[c.zoneIDs[k]]))
          /\ \A k \in DOMAIN other.task :
                /\ Range(ResponseSamples(other.task[k].sent))
                      = ExpectedSamples(other.remote[c.zoneIDs[k]])
                /\ Len(ResponseSamples(other.task[k].sent))
                      = Cardinality(ExpectedSamples(other.remote[c.zoneIDs[k]]))
          /\ failedIn[1] = FailedPulls(remote)
          /\ other.failed = FailedPulls(other.remote)
          /\ errorCounter = counterAtStart + FailedPulls(remote) + FailedPulls(other.remote)
          /\ maps = NoMaps

\* The second invocation began after the first and returned before it, with
\* a later window; zone-a gave the first one record and the second two, and
\* the pull of zone-b failed in both: the samples of zone-a say 1 and 2 and
\* the counter 2.
C27_Witness ==
    /\ BothReturned
    /\ other.nested
    /\ other.start > start
    /\ failedIn[1] = 1
    /\ other.failed = 1
    /\ errorCounter = 2
    /\ \E k \in Tasks :
          /\ ResponseSamples(task[k].sent) = <<ResponseMetric(EntryOf(Line1), 1)>>
          /\ ResponseSamples(other.task[k].sent) = <<ResponseMetric(EntryOf(Line1), 2)>>

====
